---- MODULE Spec2Model ----
(***************************************************************************)
(* Model of the AutoCare Log data layer: StorageService (a wrapper over    *)
(* localStorage) and DataManager (CRUD, cascade delete, import/export and  *)
(* a time-boxed read cache over two persisted collections).                *)
(*                                                                         *)
(* JavaScript values are rendered as tagged records:                       *)
(*   [t |-> "array", a |-> <<...>>]   an array                             *)
(*   [t |-> "null",  a |-> <<>>]      null                                 *)
(*   [t |-> "number", a |-> <<>>]     a (non-zero) number                  *)
(*   [t |-> "string", a |-> <<>>]     a non-empty string that is not JSON  *)
(* Plain objects (vehicles, maintenance records, partial updates) are      *)
(* functions from field names to values, so that object spread is function *)
(* override.  A null array element is the function NullElem.               *)
(*                                                                         *)
(* The model classes Vehicle and MaintenanceRecord, the standalone form     *)
(* validators and the submit handlers of VehicleForm and MaintenanceForm    *)
(* work on field values that are looked into:                              *)
(*   [t |-> "number", w |-> 10, f |-> 5]     the number 10.005             *)
(*   [t |-> "string", c |-> <<"a", "b">>]    the string "ab"               *)
(*   [t |-> "string", date |-> [day, ms]]    a string new Date() can read  *)
(*   [iso |-> ms]                            a toISOString() timestamp     *)
(***************************************************************************)
EXTENDS Integers, Sequences, FiniteSets, TLC

\* ------------------------------------------------------------------ bounds
\* Date.now() when the page is loaded
StartTime == 1000000
\* the calendar year in which the page is loaded
BaseYear == 2025

\* --------------------------------------------------------------- constants
cacheExpiry == 5 * 60 * 1000

versionKey == "autocare_storage_version"
version == "1.0.0"

STORAGE_KEYS == [VEHICLES |-> "autocare_vehicles",
                 MAINTENANCE_RECORDS |-> "autocare_maintenance_records",
                 LAST_BACKUP |-> "autocare_last_backup"]

\* the keys localStorage can hold in this model (the order of
\* localStorage.key(i) is user-agent defined)
Keys == {versionKey, STORAGE_KEYS.VEHICLES, STORAGE_KEYS.MAINTENANCE_RECORDS}

\* ------------------------------------------------------------ JS values
JsNull == [t |-> "null", a |-> <<>>]
JsNumber == [t |-> "number", a |-> <<>>]
JsString == [t |-> "string", a |-> <<>>]
JsArray(s) == [t |-> "array", a |-> s]
EmptyArray == JsArray(<<>>)
NullElem == [jsnull |-> TRUE]
\* the string with the given text
JsText(s) == [t |-> JsString.t, a |-> JsString.a, s |-> s]
JsUndefined == [t |-> "undefined", a |-> <<>>]
JsNaN == [t |-> "nan", a |-> <<>>]
\* an object that refers to itself
JsCircular == [t |-> "circular", a |-> <<>>]

\* Array.isArray(v)
IsArray(v) == v.t = "array"
\* truthiness of a value used as a condition (arrays, non-zero numbers and
\* non-empty strings are truthy, null is falsy)
Truthy(v) == v.t # "null"

\* a localStorage item: absent (getItem gives null), the JSON text of a
\* value, or a text that JSON.parse rejects
Absent == [t |-> "absent"]
RawText(text) == [t |-> "raw", s |-> text]
\* JSON.stringify(value) raises TypeError on a circular structure
StringifyThrows(v) == v.t = "circular"
\* an array element that JSON.stringify writes as null: undefined and NaN
WrittenAsNull(e) == "t" \in DOMAIN e /\ e.t \in {"undefined", "nan"}
\* the value that the JSON text of v denotes: NaN becomes null, and so do
\* the undefined and NaN elements of an array
Jsonable(v) ==
    IF v.t = "nan" THEN JsNull
    ELSE IF v.t = "array" /\ (\E i \in 1..Len(v.a) : WrittenAsNull(v.a[i]))
    THEN JsArray([i \in 1..Len(v.a) |-> IF WrittenAsNull(v.a[i]) THEN NullElem ELSE v.a[i]])
    ELSE v
\* the item that localStorage.setItem(key, JSON.stringify(value)) stores: the
\* JSON text of the value; JSON.stringify(undefined) is undefined, which
\* setItem stores as the text "undefined"
JSON_stringify(v) ==
    IF v.t = "undefined" THEN RawText("undefined")
    ELSE [t |-> "json", v |-> Jsonable(v)]
\* JSON.parse(item) for an item that is JSON text
JSON_parse(item) == item.v

\* new Date(ms).toISOString()
toISOString(ms) == [iso |-> ms]

\* ------------------------------------------------------------ inputs
VehicleIds == {"v1", "v2"}
RecordIds == {"m1", "m2"}
\* ids that fail `!id || typeof id !== 'string'`: the empty string and a
\* number (written here as the text of its tag)
EmptyId == ""
NumberId == "#number"
BadIds == {EmptyId, NumberId}
\* a createdAt supplied by the caller
SuppliedTime == toISOString(7)
\* the timestamps a caller supplies in the partial fields of an update
OtherTime == toISOString(8)
\* an argument that is not an object (null, a string, a number)
NotAnObject == [jsNonObject |-> TRUE]
IsObject(d) == "jsNonObject" \notin DOMAIN d /\ "jsnull" \notin DOMAIN d

\* the enumeration orders of localStorage.key(i); with the keys of this model
\* handleQuotaExceeded finds the same first key under every order
KeyOrders == {<<versionKey, STORAGE_KEYS.VEHICLES, STORAGE_KEYS.MAINTENANCE_RECORDS>>}

\* outcome of one localStorage.setItem and, if it threw QuotaExceededError,
\* of the setItem retried by handleQuotaExceeded
WriteEnvs == {"ok", "error", "quotaRetryOk", "quotaRetryFail"}
\* the outcomes of the (up to four) writes of one importAllData call: at most
\* one of them fails
ImportEnvs == {e \in [1..4 -> WriteEnvs] : Cardinality({i \in 1..4 : e[i] # "ok"}) <= 1}

VARIABLES
    storageAvailable,            \* StorageService.storageAvailable
    ls,                          \* localStorage: key -> item
    vehiclesCache,               \* DataManager.vehiclesCache
    maintenanceRecordsCache,     \* DataManager.maintenanceRecordsCache
    lastVehiclesCacheTime,       \* DataManager.lastVehiclesCacheTime
    lastMaintenanceCacheTime,    \* DataManager.lastMaintenanceCacheTime
    now,                         \* Date.now()
    vehicleInstance,             \* a Vehicle instance held by the page
    recordInstance,              \* a MaintenanceRecord instance held by the page
    held,                        \* a value an earlier call returned, still held by the page
    vehicleForm,                 \* the VehicleForm instance and the inputs it rendered
    maintenanceForm,             \* the MaintenanceForm instance
    editing,                     \* the vehicle the user loaded for editing and still edits
    app                          \* AppState, the page around it and the running init() calls

vars == <<storageAvailable, ls, vehiclesCache, maintenanceRecordsCache,
          lastVehiclesCacheTime, lastMaintenanceCacheTime, now, vehicleInstance, recordInstance,
          held, vehicleForm, maintenanceForm, editing, app>>

\* the mutable state an operation works on
World == [ls |-> ls,
          vehiclesCache |-> vehiclesCache,
          maintenanceRecordsCache |-> maintenanceRecordsCache,
          lastVehiclesCacheTime |-> lastVehiclesCacheTime,
          lastMaintenanceCacheTime |-> lastMaintenanceCacheTime]

\* ------------------------------------------------------------ try/catch
\* a variant of TryCatch without the catch block: the exception reaches the
\* caller
TryCatch_NoHandler(throws, body, handler) ==
    IF throws THEN [handler EXCEPT !.exc = "escaped"] ELSE body

\* try { body } catch (error) { handler }: `throws` tells whether the body
\* raises an exception; the handlers only log error.message and return
TryCatch(throws, body, handler) ==
    IF throws THEN [handler EXCEPT !.exc = "caught"] ELSE body

\* a get that answers the default for an item that is not JSON text
StorageService_get_DefaultOnRaw(store, key, defaultValue) ==
    IF ~storageAvailable THEN defaultValue
    ELSE IF store[key].t \in {"absent", "raw"} THEN defaultValue
    ELSE JSON_parse(store[key])
\* ------------------------------------------------------- StorageService
\* StorageService.get(key, defaultValue)
StorageService_get(store, key, defaultValue) ==
    IF ~storageAvailable THEN defaultValue
    ELSE IF store[key].t = "absent" THEN defaultValue
    ELSE IF store[key].t = "raw" THEN JsText(store[key].s)
    ELSE JSON_parse(store[key])

\* the filter without the test that spares the version key
FilterKeys_KeepVersion(order, store, key) ==
    SelectSeq(order, LAMBDA k : store[k].t # "absent" /\ k # key)
\* localStorage.key(i) for i = 0 .. length-1, restricted to the keys present
\* and kept by the filter of handleQuotaExceeded
FilterKeys(order, store, key) ==
    SelectSeq(order, LAMBDA k : store[k].t # "absent" /\ k # versionKey /\ k # key)

\* a localStorage.setItem / removeItem call made by set, and whether it
\* succeeded
SetItemCall(key, ok) == [op |-> "setItem", key |-> key, ok |-> ok]
RemoveItemCall(key, ok) == [op |-> "removeItem", key |-> key, ok |-> ok]

\* StorageService.handleQuotaExceeded(key, value): the localStorage after it
\* and the calls it made.  env tells whether removeItem throws and whether
\* the retried setItem succeeds, order is the enumeration order of
\* localStorage.key
handleQuotaExceeded(store, key, serialized, env, order) ==
    LET allKeys == FilterKeys(order, store, key)
    IN IF Len(allKeys) > 0
       THEN LET keyToRemove == allKeys[1]
                removed == [store EXCEPT ![keyToRemove] = Absent]
            IN IF env = "quotaRemoveThrows"
               THEN [ls |-> store, calls |-> <<RemoveItemCall(keyToRemove, FALSE)>>]
               ELSE IF env = "quotaRetryOk"
               THEN [ls |-> [removed EXCEPT ![key] = serialized],
                     calls |-> <<RemoveItemCall(keyToRemove, TRUE), SetItemCall(key, TRUE)>>]
               ELSE [ls |-> removed,
                     calls |-> <<RemoveItemCall(keyToRemove, TRUE), SetItemCall(key, FALSE)>>]
       ELSE [ls |-> store, calls |-> <<>>]

\* `!key || typeof key !== 'string'`
InvalidKey(key) == key \in BadIds

\* StorageService.set(key, value): the localStorage after it, the boolean
\* returned and the localStorage calls made.  env "error" is a setItem that
\* throws something other than a quota error
StorageService_set(store, key, value, env, order) ==
    IF ~storageAvailable \/ InvalidKey(key)
    THEN [ls |-> store, r |-> FALSE, calls |-> <<>>, exc |-> "none"]
    ELSE TryCatch(StringifyThrows(value) \/ env = "error",
            (IF env = "ok"
             THEN [ls |-> [store EXCEPT ![key] = JSON_stringify(value)], r |-> TRUE,
                   calls |-> <<SetItemCall(key, TRUE)>>, exc |-> "none"]
             ELSE LET h == handleQuotaExceeded(store, key, JSON_stringify(value), env, order)
                  IN [ls |-> h.ls, r |-> FALSE,
                      calls |-> <<SetItemCall(key, FALSE)>> \o h.calls, exc |-> "none"]),
            [ls |-> store, r |-> FALSE,
             calls |-> IF StringifyThrows(value) THEN <<>> ELSE <<SetItemCall(key, FALSE)>>,
             exc |-> "none"])

\* StorageService.get(key, defaultValue) on a store whose getItem may throw
\* (env = "throws"): the value returned
StorageService_getOutcome(store, key, defaultValue, env) ==
    IF ~storageAvailable \/ InvalidKey(key) THEN [r |-> defaultValue, exc |-> "none"]
    ELSE TryCatch(env = "throws",
                  [r |-> StorageService_get(store, key, defaultValue), exc |-> "none"],
                  [r |-> defaultValue, exc |-> "none"])

\* StorageService.remove(key)
StorageService_remove(store, key, env) ==
    IF ~storageAvailable \/ InvalidKey(key) THEN [ls |-> store, r |-> FALSE, exc |-> "none"]
    ELSE TryCatch(env = "throws",
                  [ls |-> [store EXCEPT ![key] = Absent], r |-> TRUE, exc |-> "none"],
                  [ls |-> store, r |-> FALSE, exc |-> "none"])

\* localStorage.clear()
Cleared(store) == [k \in DOMAIN store |-> Absent]

\* StorageService.clear(includeVersion); env names the localStorage call that
\* throws: getItem of the version, clear, or the setItem that restores the
\* version (made only when a version was stored)
StorageService_clear(store, includeVersion, env) ==
    IF ~storageAvailable THEN [ls |-> store, r |-> FALSE, exc |-> "none"]
    ELSE IF includeVersion
    THEN TryCatch(env = "clearThrows",
                  [ls |-> Cleared(store), r |-> TRUE, exc |-> "none"],
                  [ls |-> store, r |-> FALSE, exc |-> "none"])
    ELSE LET restores == store[versionKey] # Absent
         IN TryCatch(env \in {"getThrows", "clearThrows"} \/ (env = "setThrows" /\ restores),
                     [ls |-> [Cleared(store) EXCEPT ![versionKey] = store[versionKey]],
                      r |-> TRUE, exc |-> "none"],
                     [ls |-> IF env = "setThrows" THEN Cleared(store) ELSE store,
                      r |-> FALSE, exc |-> "none"])

\* StorageService.has(key)
StorageService_has(store, key, env) ==
    IF ~storageAvailable \/ InvalidKey(key) THEN [r |-> FALSE, exc |-> "none"]
    ELSE TryCatch(env = "throws",
                  [r |-> store[key] # Absent, exc |-> "none"],
                  [r |-> FALSE, exc |-> "none"])

\* StorageService.getAllKeys(includeVersion); env = "throws" when
\* localStorage.length or localStorage.key(i) throws
StorageService_getAllKeys(store, includeVersion, env, order) ==
    IF ~storageAvailable THEN [r |-> <<>>, exc |-> "none"]
    ELSE TryCatch(env = "throws",
                  [r |-> SelectSeq(order, LAMBDA k : store[k] # Absent
                                              /\ (includeVersion \/ k # versionKey)),
                    exc |-> "none"],
                  [r |-> <<>>, exc |-> "none"])

\* {}
EmptyObject == [k \in {} |-> JsNull]

\* StorageService.exportAll(): the object from keys to values.  keysEnv and
\* readEnv tell whether the enumeration of the keys and getItem throw
StorageService_exportAll(store, keysEnv, readEnv, order) ==
    IF ~storageAvailable THEN [r |-> EmptyObject, exc |-> "none"]
    ELSE LET keys == StorageService_getAllKeys(store, TRUE, keysEnv, order)
             names == {keys.r[i] : i \in 1..Len(keys.r)}
             got == [k \in names |-> StorageService_getOutcome(store, k, JsNull, readEnv)]
         IN TryCatch(keys.exc = "escaped" \/ (\E k \in names : got[k].exc = "escaped"),
                     [r |-> [k \in names |-> got[k].r], exc |-> "none"],
                     [r |-> EmptyObject, exc |-> "none"])

\* Object.keys(data).forEach(key => this.set(key, data[key])) from entry i on:
\* the localStorage after it, the number of sets that returned false and
\* whether a set let an exception escape
RECURSIVE SetEach(_, _, _, _, _)
SetEach(store, entries, envs, order, i) ==
    IF i > Len(entries) THEN [ls |-> store, failCount |-> 0, escaped |-> FALSE]
    ELSE LET o == StorageService_set(store, entries[i].key, entries[i].value, envs[i], order)
         IN IF o.exc = "escaped" THEN [ls |-> o.ls, failCount |-> 0, escaped |-> TRUE]
            ELSE LET rest == SetEach(o.ls, entries, envs, order, i + 1)
                 IN [ls |-> rest.ls,
                     failCount |-> rest.failCount + (IF o.r THEN 0 ELSE 1),
                     escaped |-> rest.escaped]

\* StorageService.importAll(data, clearFirst); data.entries lists the
\* properties of data in the order of Object.keys
StorageService_importAll(store, data, clearFirst, clearEnv, envs, order) ==
    IF ~storageAvailable \/ ~IsObject(data) THEN [ls |-> store, r |-> FALSE, exc |-> "none"]
    ELSE LET c == IF clearFirst THEN StorageService_clear(store, FALSE, clearEnv)
                  ELSE [ls |-> store, r |-> TRUE, exc |-> "none"]
             e == SetEach(c.ls, data.entries, envs, order, 1)
         IN TryCatch(c.exc = "escaped" \/ e.escaped,
                     [ls |-> e.ls, r |-> e.failCount = 0, exc |-> "none"],
                     [ls |-> e.ls, r |-> FALSE, exc |-> "none"])

\* StorageService.checkStorageAvailability(); env = "throws" when the test
\* setItem throws
checkStorageAvailability(env) ==
    TryCatch(env = "throws", [r |-> TRUE, exc |-> "none"], [r |-> FALSE, exc |-> "none"])

\* StorageService.migrateStorage(fromVersion, toVersion): it logs a failing
\* write and throws a new Error
migrateStorage(store, toVersion, env) ==
    IF env = "setThrows" THEN [ls |-> store, exc |-> "escaped"]
    ELSE [ls |-> [store EXCEPT ![versionKey] = RawText(toVersion)], exc |-> "none"]

\* StorageService.initializeStorage(); env names the localStorage call that
\* throws: getItem of the version, or the setItem that writes it
initializeStorage(store, available, env) ==
    IF ~available THEN [ls |-> store, exc |-> "none"]
    ELSE LET storedVersion == store[versionKey]
             m == migrateStorage(store, version, env)
         IN TryCatch(env = "getThrows"
                        \/ (storedVersion = Absent /\ env = "setThrows")
                        \/ (storedVersion \notin {Absent, RawText(version)}
                               /\ m.exc = "escaped"),
                     [ls |-> IF storedVersion = Absent
                             THEN [store EXCEPT ![versionKey] = RawText(version)]
                             ELSE IF storedVersion # RawText(version) THEN m.ls
                             ELSE store,
                      exc |-> "none"],
                     [ls |-> store, exc |-> "none"])

\* new StorageService(): storageAvailable and the localStorage after it (the
\* test key of the availability check is written and removed again)
StorageService_constructor(store, checkEnv, initEnv) ==
    LET a == checkStorageAvailability(checkEnv)
        i == initializeStorage(store, a.r, initEnv)
    IN [available |-> a.r, ls |-> i.ls,
        exc |-> IF "escaped" \in {a.exc, i.exc} THEN "escaped"
                ELSE IF "caught" \in {a.exc, i.exc} THEN "caught"
                ELSE "none"]

\* ----------------------------------------------------------- DataManager
\* what a result object says: success, the kind of message, and the data
NoData == [jsUndefined |-> TRUE]
Result(success, reason, data) == [success |-> success, reason |-> reason, data |-> data]

\* [...x] inside a try block: a non-iterable operand raises TypeError
SpreadThrows(v) == v.t \in {"number", "null"}
\* an element of [...aString]: a one-character string, which has no fields
CharElem == [jschar |-> TRUE]
\* [...x] of an array is a copy; of a string it is the array of its
\* characters; when the spread throws the caller's catch returns []
Spread(v) == IF v.t = "array" THEN v.a
             ELSE IF v.t = "string" THEN <<CharElem>>
             ELSE <<>>

\* a variant of invalidateVehiclesCache that leaves the cache in place
invalidateVehiclesCache_Keep(w) == w

\* DataManager.invalidateVehiclesCache()
invalidateVehiclesCache(w) ==
    [w EXCEPT !.vehiclesCache = JsNull, !.lastVehiclesCacheTime = 0]

\* DataManager.invalidateMaintenanceCache()
invalidateMaintenanceCache(w) ==
    [w EXCEPT !.maintenanceRecordsCache = JsNull, !.lastMaintenanceCacheTime = 0]

\* DataManager.clearAllCaches()
clearAllCaches(w) == invalidateMaintenanceCache(invalidateVehiclesCache(w))

\* a variant of CacheValid that still serves a cache aged exactly cacheExpiry
CacheValid_Inclusive(useCache, cache, cacheTime, t) ==
    useCache /\ Truthy(cache) /\ (t - cacheTime) <= cacheExpiry

\* the test of getAllVehicles / getAllMaintenanceRecords for serving the cache
CacheValid(useCache, cache, cacheTime, t) ==
    useCache /\ Truthy(cache) /\ (t - cacheTime) < cacheExpiry

\* DataManager.getAllVehicles(useCache) at time t: the world after it, the
\* sequence returned and whether the store was read
getAllVehicles(w, useCache, t) ==
    IF CacheValid(useCache, w.vehiclesCache, w.lastVehiclesCacheTime, t)
    THEN TryCatch(SpreadThrows(w.vehiclesCache),
                  [w |-> w, r |-> Spread(w.vehiclesCache), read |-> FALSE, exc |-> "none"],
                  [w |-> w, r |-> <<>>, read |-> FALSE, exc |-> "none"])
    ELSE LET vehicles == StorageService_get(w.ls, STORAGE_KEYS.VEHICLES, EmptyArray)
         IN [w |-> [w EXCEPT !.vehiclesCache = vehicles, !.lastVehiclesCacheTime = t],
             r |-> IF IsArray(vehicles) THEN vehicles.a ELSE <<>>,
             read |-> TRUE, exc |-> "none"]

\* DataManager.getAllMaintenanceRecords(useCache) at time t
getAllMaintenanceRecords(w, useCache, t) ==
    IF CacheValid(useCache, w.maintenanceRecordsCache, w.lastMaintenanceCacheTime, t)
    THEN TryCatch(SpreadThrows(w.maintenanceRecordsCache),
                  [w |-> w, r |-> Spread(w.maintenanceRecordsCache), read |-> FALSE,
                   exc |-> "none"],
                  [w |-> w, r |-> <<>>, read |-> FALSE, exc |-> "none"])
    ELSE LET records == StorageService_get(w.ls, STORAGE_KEYS.MAINTENANCE_RECORDS, EmptyArray)
         IN [w |-> [w EXCEPT !.maintenanceRecordsCache = records,
                             !.lastMaintenanceCacheTime = t],
             r |-> IF IsArray(records) THEN records.a ELSE <<>>,
             read |-> TRUE, exc |-> "none"]

\* ------------------------------------------------------ object helpers
Undefined == "#undefined"
\* o.f for an object o (undefined when the field is missing)
Field(o, f) == IF f \in DOMAIN o THEN o[f] ELSE Undefined
\* a string field (id, vehicleId) used as a condition: undefined and "" are
\* falsy
FieldTruthy(o, f) == f \in DOMAIN o /\ o[f] # "" /\ o[f] # Undefined
\* a timestamp field used as a condition: a timestamp is a non-empty string,
\* so only a missing field is falsy
TimeTruthy(o, f) == f \in DOMAIN o
\* { ...o, f: v }
Put(o, f, v) == [x \in DOMAIN o \cup {f} |-> IF x = f THEN v ELSE o[x]]
\* { ...a, ...b }
SpreadObjects(a, b) == [x \in DOMAIN a \cup DOMAIN b |-> IF x \in DOMAIN b THEN b[x] ELSE a[x]]
\* the object without field f (a field set to undefined is dropped by
\* JSON.stringify)
Drop(o, f) == [x \in DOMAIN o \ {f} |-> o[x]]

\* index (from 1) of the first element e with e[f] === v, 0 if there is none:
\* findIndex / find / some
FirstIndex(seq, f, v) ==
    LET S == {i \in 1..Len(seq) : seq[i] # NullElem /\ Field(seq[i], f) = v}
    IN IF S = {} THEN 0 ELSE CHOOSE i \in S : \A j \in S : i <= j
\* the scan of findIndex / find / some reads a field of a null element
\* (TypeError) before it finds a match
ScanThrows(seq, f, v) ==
    \E i \in 1..Len(seq) : seq[i] = NullElem
         /\ (FirstIndex(seq, f, v) = 0 \/ i < FirstIndex(seq, f, v))
\* filter reads a field of every element
FilterThrows(seq) == \E i \in 1..Len(seq) : seq[i] = NullElem
\* seq.splice(index, 1)
Splice(seq, index) == [i \in 1..(Len(seq) - 1) |-> IF i < index THEN seq[i] ELSE seq[i + 1]]

\* `!id || typeof id !== 'string'`
InvalidId(id) == id \in BadIds

\* DataManager.getVehicleById(id) at time t: the world after it and the
\* vehicle found (NullElem stands for null)
getVehicleById(w, id, t) ==
    IF InvalidId(id) THEN [w |-> w, r |-> NullElem, exc |-> "none"]
    ELSE LET g == getAllVehicles(w, TRUE, t)
         IN TryCatch(g.exc = "escaped" \/ ScanThrows(g.r, "id", id),
                     [w |-> g.w,
                      r |-> IF FirstIndex(g.r, "id", id) = 0 THEN NullElem
                            ELSE g.r[FirstIndex(g.r, "id", id)],
                      exc |-> "none"],
                     [w |-> g.w, r |-> NullElem, exc |-> "none"])

\* DataManager.getMaintenanceRecordById(id) at time t
getMaintenanceRecordById(w, id, t) ==
    IF InvalidId(id) THEN [w |-> w, r |-> NullElem, exc |-> "none"]
    ELSE LET g == getAllMaintenanceRecords(w, TRUE, t)
         IN TryCatch(g.exc = "escaped" \/ ScanThrows(g.r, "id", id),
                     [w |-> g.w,
                      r |-> IF FirstIndex(g.r, "id", id) = 0 THEN NullElem
                            ELSE g.r[FirstIndex(g.r, "id", id)],
                      exc |-> "none"],
                     [w |-> g.w, r |-> NullElem, exc |-> "none"])

\* DataManager.getMaintenanceRecordsByVehicleId(vehicleId) at time t
getMaintenanceRecordsByVehicleId(w, vehicleId, t) ==
    IF InvalidId(vehicleId) THEN [w |-> w, r |-> <<>>, exc |-> "none"]
    ELSE LET g == getAllMaintenanceRecords(w, TRUE, t)
         IN TryCatch(g.exc = "escaped" \/ FilterThrows(g.r),
                     [w |-> g.w,
                      r |-> SelectSeq(g.r, LAMBDA rec : Field(rec, "vehicleId") = vehicleId),
                      exc |-> "none"],
                     [w |-> g.w, r |-> <<>>, exc |-> "none"])

\* the outcome of a mutating operation: the world after it, the result
\* object, whether some StorageService.set returned false, and what became
\* of an exception raised in its try block ("none" when none was raised)
Outcome(w, r, wf) == [w |-> w, r |-> r, wf |-> wf, exc |-> "none"]

\* a variant of IsDuplicate that never finds a duplicate
IsDuplicate_Never(seq, data) == FALSE

\* the duplicate-id test of addVehicle / addMaintenanceRecord:
\* data.id && collection.some(x => x.id === data.id)
IsDuplicate(seq, data) ==
    FieldTruthy(data, "id") /\ FirstIndex(seq, "id", data.id) # 0

\* the record with its timestamps as addVehicle / addMaintenanceRecord stamp
\* them at time t
Stamp(data, t) ==
    Put(Put(data, "createdAt",
            IF TimeTruthy(data, "createdAt") THEN data.createdAt ELSE toISOString(t)),
        "updatedAt", toISOString(t))

\* DataManager.addVehicle(vehicleData) at time t; genId is the id that
\* generateVehicleId would produce
addVehicle(w, vehicleData, t, genId, env, order) ==
    IF ~IsObject(vehicleData) THEN Outcome(w, Result(FALSE, "shape", NoData), FALSE)
    ELSE
    LET g == getAllVehicles(w, FALSE, t)
        vehicles == g.r
        hasId == FieldTruthy(vehicleData, "id")
    IN TryCatch(hasId /\ ScanThrows(vehicles, "id", vehicleData.id),
       (IF IsDuplicate(vehicles, vehicleData)
       THEN Outcome(g.w, Result(FALSE, "duplicate", NoData), FALSE)
       ELSE
       LET withId == IF hasId THEN vehicleData ELSE Put(vehicleData, "id", genId)
           stamped == Stamp(withId, t)
           s == StorageService_set(g.w.ls, STORAGE_KEYS.VEHICLES,
                                   JsArray(Append(vehicles, stamped)), env, order)
           w1 == [g.w EXCEPT !.ls = s.ls]
       IN IF s.r
          THEN Outcome(invalidateVehiclesCache(w1), Result(TRUE, "ok", stamped), FALSE)
          ELSE Outcome(w1, Result(FALSE, "write", NoData), TRUE)),
       Outcome(g.w, Result(FALSE, "caught", NoData), FALSE))

\* a variant of MergeUpdate that lets the partial fields replace id and
\* createdAt: { ...old, ...updates, updatedAt: now }
MergeUpdate_NoPreserve(old, updates, t) ==
    Put(SpreadObjects(old, updates), "updatedAt", toISOString(t))

\* a variant of MergeUpdate in which an updatedAt of the partial fields
\* replaces the time of the call: { ...old, updatedAt: now, ...updates, id, createdAt }
MergeUpdate_SuppliedStamp(old, updates, t) ==
    LET merged == SpreadObjects(Put(old, "updatedAt", toISOString(t)), updates)
        withId == IF "id" \in DOMAIN old THEN Put(merged, "id", old.id)
                  ELSE Drop(merged, "id")
    IN IF "createdAt" \in DOMAIN old THEN Put(withId, "createdAt", old.createdAt)
       ELSE Drop(withId, "createdAt")

\* the record built by updateVehicle / updateMaintenanceRecord:
\* { ...old, ...updates, id: old.id, createdAt: old.createdAt, updatedAt: now }
MergeUpdate(old, updates, t) ==
    LET merged == SpreadObjects(old, updates)
        withId == IF "id" \in DOMAIN old THEN Put(merged, "id", old.id)
                  ELSE Drop(merged, "id")
        withCreated == IF "createdAt" \in DOMAIN old
                       THEN Put(withId, "createdAt", old.createdAt)
                       ELSE Drop(withId, "createdAt")
    IN Put(withCreated, "updatedAt", toISOString(t))

\* seq with element index replaced by e
Replace(seq, index, e) == [seq EXCEPT ![index] = e]

\* DataManager.updateVehicle(id, updates) at time t
updateVehicle(w, id, updates, t, env, order) ==
    IF InvalidId(id) THEN Outcome(w, Result(FALSE, "shape", NoData), FALSE)
    ELSE IF ~IsObject(updates) THEN Outcome(w, Result(FALSE, "shape", NoData), FALSE)
    ELSE
    LET g == getAllVehicles(w, FALSE, t)
        vehicles == g.r
        index == FirstIndex(vehicles, "id", id)
    IN TryCatch(ScanThrows(vehicles, "id", id),
       (IF index = 0
       THEN Outcome(g.w, Result(FALSE, "notfound", NoData), FALSE)
       ELSE
       LET updatedVehicle == MergeUpdate(vehicles[index], updates, t)
           s == StorageService_set(g.w.ls, STORAGE_KEYS.VEHICLES,
                                   JsArray(Replace(vehicles, index, updatedVehicle)),
                                   env, order)
           w1 == [g.w EXCEPT !.ls = s.ls]
       IN IF s.r
          THEN Outcome(invalidateVehiclesCache(w1), Result(TRUE, "ok", updatedVehicle), FALSE)
          ELSE Outcome(w1, Result(FALSE, "write", NoData), TRUE)),
       Outcome(g.w, Result(FALSE, "caught", NoData), FALSE))

\* DataManager.deleteMaintenanceRecordsByVehicleId(vehicleId) at time t; the
\* count of deleted records is r.data.deletedCount
deleteMaintenanceRecordsByVehicleId(w, vehicleId, t, env, order) ==
    IF InvalidId(vehicleId) THEN Outcome(w, Result(FALSE, "shape", NoData), FALSE)
    ELSE
    LET g == getAllMaintenanceRecords(w, FALSE, t)
        records == g.r
    IN TryCatch(FilterThrows(records),
       (LET filteredRecords == SelectSeq(records, LAMBDA rec : Field(rec, "vehicleId") # vehicleId)
           deletedCount == Len(records) - Len(filteredRecords)
           s == StorageService_set(g.w.ls, STORAGE_KEYS.MAINTENANCE_RECORDS,
                                   JsArray(filteredRecords), env, order)
           w1 == [g.w EXCEPT !.ls = s.ls]
       IN IF s.r
          THEN Outcome(invalidateMaintenanceCache(w1), Result(TRUE, "ok", [deletedCount |-> deletedCount]),
                       FALSE)
          ELSE Outcome(w1, Result(FALSE, "write", NoData), TRUE)),
       Outcome(g.w, Result(FALSE, "caught", NoData), FALSE))

\* DataManager.deleteVehicle(id) at time t; env2 is the outcome of the write
\* made by the cascade
deleteVehicle(w, id, t, env, env2, order) ==
    IF InvalidId(id) THEN Outcome(w, Result(FALSE, "shape", NoData), FALSE)
    ELSE
    LET g == getAllVehicles(w, FALSE, t)
        vehicles == g.r
        index == FirstIndex(vehicles, "id", id)
    IN TryCatch(ScanThrows(vehicles, "id", id),
       (IF index = 0
       THEN Outcome(g.w, Result(FALSE, "notfound", NoData), FALSE)
       ELSE
       LET deletedVehicle == vehicles[index]
           s == StorageService_set(g.w.ls, STORAGE_KEYS.VEHICLES,
                                   JsArray(Splice(vehicles, index)), env, order)
           w1 == [g.w EXCEPT !.ls = s.ls]
       IN IF s.r
          THEN LET c == deleteMaintenanceRecordsByVehicleId(
                            invalidateVehiclesCache(w1), id, t, env2, order)
               IN TryCatch(c.exc = "escaped",
                           Outcome(c.w, Result(TRUE, "ok", deletedVehicle), c.wf),
                           Outcome(c.w, Result(FALSE, "caught", NoData), c.wf))
          ELSE Outcome(w1, Result(FALSE, "write", NoData), TRUE)),
       Outcome(g.w, Result(FALSE, "caught", NoData), FALSE))

\* DataManager.addMaintenanceRecord(recordData) at time t; genId is the id
\* that generateMaintenanceRecordId would produce
addMaintenanceRecord(w, recordData, t, genId, env, order) ==
    IF ~IsObject(recordData) THEN Outcome(w, Result(FALSE, "shape", NoData), FALSE)
    ELSE
    LET g == getAllMaintenanceRecords(w, FALSE, t)
        records == g.r
        hasId == FieldTruthy(recordData, "id")
    IN TryCatch(hasId /\ ScanThrows(records, "id", recordData.id),
       (IF IsDuplicate(records, recordData)
       THEN Outcome(g.w, Result(FALSE, "duplicate", NoData), FALSE)
       ELSE
       LET v == IF FieldTruthy(recordData, "vehicleId")
                THEN getVehicleById(g.w, recordData.vehicleId, t)
                ELSE [w |-> g.w, r |-> NullElem, exc |-> "none"]
       IN TryCatch(v.exc = "escaped",
          (IF FieldTruthy(recordData, "vehicleId") /\ v.r = NullElem
          THEN Outcome(v.w, Result(FALSE, "novehicle", NoData), FALSE)
          ELSE
          LET withId == IF hasId THEN recordData ELSE Put(recordData, "id", genId)
              stamped == Stamp(withId, t)
              s == StorageService_set(v.w.ls, STORAGE_KEYS.MAINTENANCE_RECORDS,
                                      JsArray(Append(records, stamped)), env, order)
              w1 == [v.w EXCEPT !.ls = s.ls]
          IN IF s.r
             THEN Outcome(invalidateMaintenanceCache(w1), Result(TRUE, "ok", stamped), FALSE)
             ELSE Outcome(w1, Result(FALSE, "write", NoData), TRUE)),
          Outcome(v.w, Result(FALSE, "caught", NoData), FALSE))),
       Outcome(g.w, Result(FALSE, "caught", NoData), FALSE))

\* DataManager.updateMaintenanceRecord(id, updates) at time t
updateMaintenanceRecord(w, id, updates, t, env, order) ==
    IF InvalidId(id) THEN Outcome(w, Result(FALSE, "shape", NoData), FALSE)
    ELSE IF ~IsObject(updates) THEN Outcome(w, Result(FALSE, "shape", NoData), FALSE)
    ELSE
    LET g == getAllMaintenanceRecords(w, FALSE, t)
        records == g.r
        index == FirstIndex(records, "id", id)
    IN TryCatch(ScanThrows(records, "id", id),
       (IF index = 0
       THEN Outcome(g.w, Result(FALSE, "notfound", NoData), FALSE)
       ELSE
       LET updatedRecord == MergeUpdate(records[index], updates, t)
           s == StorageService_set(g.w.ls, STORAGE_KEYS.MAINTENANCE_RECORDS,
                                   JsArray(Replace(records, index, updatedRecord)),
                                   env, order)
           w1 == [g.w EXCEPT !.ls = s.ls]
       IN IF s.r
          THEN Outcome(invalidateMaintenanceCache(w1), Result(TRUE, "ok", updatedRecord), FALSE)
          ELSE Outcome(w1, Result(FALSE, "write", NoData), TRUE)),
       Outcome(g.w, Result(FALSE, "caught", NoData), FALSE))

\* DataManager.deleteMaintenanceRecord(id) at time t
deleteMaintenanceRecord(w, id, t, env, order) ==
    IF InvalidId(id) THEN Outcome(w, Result(FALSE, "shape", NoData), FALSE)
    ELSE
    LET g == getAllMaintenanceRecords(w, FALSE, t)
        records == g.r
        index == FirstIndex(records, "id", id)
    IN TryCatch(ScanThrows(records, "id", id),
       (IF index = 0
       THEN Outcome(g.w, Result(FALSE, "notfound", NoData), FALSE)
       ELSE
       LET deletedRecord == records[index]
           s == StorageService_set(g.w.ls, STORAGE_KEYS.MAINTENANCE_RECORDS,
                                   JsArray(Splice(records, index)), env, order)
           w1 == [g.w EXCEPT !.ls = s.ls]
       IN IF s.r
          THEN Outcome(invalidateMaintenanceCache(w1), Result(TRUE, "ok", deletedRecord), FALSE)
          ELSE Outcome(w1, Result(FALSE, "write", NoData), TRUE)),
       Outcome(g.w, Result(FALSE, "caught", NoData), FALSE))

\* DataManager.exportAllData() at time t: the world after it and the snapshot
exportAllData(w, t) ==
    LET gv == getAllVehicles(w, FALSE, t)
        gm == getAllMaintenanceRecords(gv.w, FALSE, t)
    IN [w |-> gm.w,
        r |-> [vehicles |-> JsArray(gv.r),
               maintenanceRecords |-> JsArray(gm.r),
               exportDate |-> toISOString(t),
               version |-> version],
        exc |-> "none"]

\* a variant of importAllData that writes the maintenance records only
importAllData_RecordsOnly(w, data, clearFirst, envs, order) ==
    IF ~IsObject(data) THEN Outcome(w, Result(FALSE, "shape", NoData), FALSE)
    ELSE
    LET s2 == StorageService_set(w.ls, STORAGE_KEYS.MAINTENANCE_RECORDS,
                                 data.maintenanceRecords, envs[4], order)
    IN Outcome(clearAllCaches([w EXCEPT !.ls = s2.ls]),
               Result(TRUE, "ok",
                      [vehiclesImported |-> 0,
                       maintenanceRecordsImported |-> Len(data.maintenanceRecords.a),
                       errors |-> <<>>]),
               ~s2.r)

\* DataManager.importAllData(data, clearFirst); envs holds the outcomes of the
\* up to four writes it makes.  r.data is the `results` object
importAllData(w, data, clearFirst, envs, order) ==
    IF ~IsObject(data) THEN Outcome(w, Result(FALSE, "shape", NoData), FALSE)
    ELSE
    LET c1 == IF clearFirst
              THEN StorageService_set(w.ls, STORAGE_KEYS.VEHICLES, EmptyArray, envs[1], order)
              ELSE [ls |-> w.ls, r |-> TRUE]
        c2 == IF clearFirst
              THEN StorageService_set(c1.ls, STORAGE_KEYS.MAINTENANCE_RECORDS, EmptyArray,
                                      envs[2], order)
              ELSE [ls |-> c1.ls, r |-> TRUE]
        hasV == "vehicles" \in DOMAIN data /\ IsArray(data.vehicles)
        hasM == "maintenanceRecords" \in DOMAIN data /\ IsArray(data.maintenanceRecords)
        s1 == IF hasV
              THEN StorageService_set(c2.ls, STORAGE_KEYS.VEHICLES, data.vehicles, envs[3], order)
              ELSE [ls |-> c2.ls, r |-> TRUE]
        s2 == IF hasM
              THEN StorageService_set(s1.ls, STORAGE_KEYS.MAINTENANCE_RECORDS,
                                      data.maintenanceRecords, envs[4], order)
              ELSE [ls |-> s1.ls, r |-> TRUE]
        results == [vehiclesImported |-> IF hasV /\ s1.r THEN Len(data.vehicles.a) ELSE 0,
                    maintenanceRecordsImported |->
                        IF hasM /\ s2.r THEN Len(data.maintenanceRecords.a) ELSE 0,
                    errors |-> (IF hasV /\ ~s1.r THEN <<"vehicles">> ELSE <<>>)
                               \o (IF hasM /\ ~s2.r THEN <<"maintenanceRecords">> ELSE <<>>)]
    IN Outcome(clearAllCaches([w EXCEPT !.ls = s2.ls]),
               Result(Len(results.errors) = 0, IF Len(results.errors) = 0 THEN "ok" ELSE "write",
                      results),
               ~c1.r \/ ~c2.r \/ ~s1.r \/ ~s2.r)

\* DataManager.clearAllData(); envs holds the outcomes of its two writes
clearAllData(w, envs, order) ==
    LET c1 == StorageService_set(w.ls, STORAGE_KEYS.VEHICLES, EmptyArray, envs[1], order)
        c2 == StorageService_set(c1.ls, STORAGE_KEYS.MAINTENANCE_RECORDS, EmptyArray,
                                 envs[2], order)
    IN Outcome(clearAllCaches([w EXCEPT !.ls = c2.ls]),
               Result(TRUE, "ok", NoData),
               ~c1.r \/ ~c2.r)

\* ---------------------------------------------------------------- search
\* a number found where a string is expected (written as the text of its tag)
NotAString == "#number"
\* the characters of the strings that are searched or searched for
Chars == [A |-> <<"A">>, B |-> <<"B">>, a |-> <<"a">>,
          oil |-> <<"o", "i", "l">>, tyres |-> <<"t", "y", "r", "e", "s">>,
          OI |-> <<"O", "I">>]
\* typeof v === 'string' (and v is not empty)
IsString(v) == v \in DOMAIN Chars
LowerChar(c) == CASE c = "A" -> "a" [] c = "B" -> "b" [] c = "O" -> "o"
                  [] c = "I" -> "i" [] OTHER -> c
\* s.toLowerCase()
toLowerCase(s) == [i \in 1..Len(s) |-> LowerChar(s[i])]
\* a.includes(b)
includes(a, b) == \E k \in 0..(Len(a) - Len(b)) : SubSeq(a, k + 1, k + Len(b)) = b

\* the state of one run of a filter callback: the `matches` flag and whether
\* the run has raised a TypeError
MatchStart == [m |-> TRUE, thrown |-> FALSE]
MatchThrown == [m |-> FALSE, thrown |-> TRUE]

\* if (criteria[f] && matches)
\*     matches = e[f].toLowerCase().includes(criteria[f].toLowerCase())
TextStep(acc, e, c, f) ==
    IF acc.thrown \/ ~acc.m \/ ~FieldTruthy(c, f) THEN acc
    ELSE IF e = NullElem \/ ~IsString(Field(e, f)) \/ ~IsString(c[f]) THEN MatchThrown
    ELSE [m |-> includes(toLowerCase(Chars[e[f]]), toLowerCase(Chars[c[f]])),
          thrown |-> FALSE]

\* if (criteria.vehicleId && matches) matches = e.vehicleId === criteria.vehicleId
IdStep(acc, e, c, f) ==
    IF acc.thrown \/ ~acc.m \/ ~FieldTruthy(c, f) THEN acc
    ELSE IF e = NullElem THEN MatchThrown
    ELSE [m |-> Field(e, f) = c[f], thrown |-> FALSE]

\* if (criteria.year && matches) matches = e.year === criteria.year
NumberStep(acc, e, c, f) ==
    IF acc.thrown \/ ~acc.m \/ f \notin DOMAIN c \/ c[f] = 0 THEN acc
    ELSE IF e = NullElem THEN MatchThrown
    ELSE [m |-> f \in DOMAIN e /\ e[f] = c[f], thrown |-> FALSE]

\* if (criteria[cf] !== undefined && matches) matches = e[f] >= criteria[cf]
\* (lower = TRUE) or e[f] <= criteria[cf] (lower = FALSE); a missing e[f]
\* compares false.  The date criteria (tested for truthiness, compared as
\* new Date(...) values) take the same step: dates are day numbers here, a
\* missing or unparsable date compares false
RangeStep(acc, e, c, f, cf, lower) ==
    IF acc.thrown \/ ~acc.m \/ cf \notin DOMAIN c THEN acc
    ELSE IF e = NullElem THEN MatchThrown
    ELSE [m |-> f \in DOMAIN e /\ (IF lower THEN e[f] >= c[cf] ELSE e[f] <= c[cf]),
          thrown |-> FALSE]

\* the filter callback of searchVehicles run on element e
VehicleMatch(e, c) ==
    RangeStep(RangeStep(NumberStep(TextStep(TextStep(MatchStart, e, c, "make"),
                                            e, c, "model"),
                                   e, c, "year"),
                        e, c, "mileage", "minMileage", TRUE),
              e, c, "mileage", "maxMileage", FALSE)

\* the filter callback of searchMaintenanceRecords run on element e
RecordMatch(e, c) ==
    RangeStep(RangeStep(RangeStep(RangeStep(
        TextStep(IdStep(MatchStart, e, c, "vehicleId"), e, c, "serviceType"),
                                            e, c, "date", "startDate", TRUE),
                                  e, c, "date", "endDate", FALSE),
                        e, c, "cost", "minCost", TRUE),
              e, c, "cost", "maxCost", FALSE)

\* DataManager.searchVehicles(criteria) at time t
searchVehicles(w, criteria, t) ==
    LET g == getAllVehicles(w, TRUE, t)
    IN IF ~IsObject(criteria) THEN [w |-> g.w, r |-> g.r, exc |-> g.exc]
       ELSE TryCatch(g.exc = "escaped"
                        \/ \E i \in 1..Len(g.r) : VehicleMatch(g.r[i], criteria).thrown,
                     [w |-> g.w,
                      r |-> SelectSeq(g.r, LAMBDA e : VehicleMatch(e, criteria).m),
                      exc |-> "none"],
                     [w |-> g.w, r |-> <<>>, exc |-> "none"])

\* DataManager.searchMaintenanceRecords(criteria) at time t
searchMaintenanceRecords(w, criteria, t) ==
    LET g == getAllMaintenanceRecords(w, TRUE, t)
    IN IF ~IsObject(criteria) THEN [w |-> g.w, r |-> g.r, exc |-> g.exc]
       ELSE TryCatch(g.exc = "escaped"
                        \/ \E i \in 1..Len(g.r) : RecordMatch(g.r[i], criteria).thrown,
                     [w |-> g.w,
                      r |-> SelectSeq(g.r, LAMBDA e : RecordMatch(e, criteria).m),
                      exc |-> "none"],
                     [w |-> g.w, r |-> <<>>, exc |-> "none"])

\* the page holds no instance
NoInstance == [t |-> "null", a |-> <<>>]

\* ------------------------------------------------------------- calendar
\* Date.now() counts the milliseconds from the local midnight that starts
\* 31 December of BaseYear; the local time zone is taken to be UTC
MsPerDay == 24 * 60 * 60 * 1000
\* the days from a day of these two to the same day 100 years earlier
DaysIn100Years == 100 * 365 + 25
\* a point in time: the day counted from 31 December of BaseYear and the
\* milliseconds into that day
Instant(day, ms) == [day |-> day, ms |-> ms]
\* new Date() at Date.now() = t
DateOf(t) == Instant(t \div MsPerDay, t % MsPerDay)
\* new Date().getFullYear() at Date.now() = t
getFullYear(t) == IF t \div MsPerDay >= 1 THEN BaseYear + 1 ELSE BaseYear
\* a > b and a < b on Date objects
DateAfter(a, b) == a.day > b.day \/ (a.day = b.day /\ a.ms > b.ms)
DateBefore(a, b) == DateAfter(b, a)
\* d.setDate(d.getDate() + n); d.setHours(23, 59, 59, 999)
EndOfDay(d, n) == Instant(d.day + n, MsPerDay - 1)
\* d.setFullYear(d.getFullYear() - 100)
HundredYearsBefore(d) == Instant(d.day - DaysIn100Years, d.ms)

\* ------------------------------------------------------- field values
\* a finite number: w + f/1000 with 0 <= f < 1000
Num(w, f) == [t |-> "number", w |-> w, f |-> f]
Zero == Num(0, 0)
\* a string given by its characters
Str(chars) == [t |-> "string", c |-> chars]
EmptyStr == Str(<<>>)
\* a string that new Date(string) reads as the point in time d
DateStr(d) == [t |-> "string", date |-> d]
\* typeof v; a timestamp written by toISOString is a string
TypeOf(v) == IF "iso" \in DOMAIN v THEN "string" ELSE v.t
\* v.length for a string
Length(v) == IF "c" \in DOMAIN v THEN Len(v.c) ELSE 24
\* !v
Falsy(v) ==
    \/ TypeOf(v) \in {"null", "undefined", "nan"}
    \/ TypeOf(v) = "number" /\ v.w = 0 /\ v.f = 0
    \/ TypeOf(v) = "string" /\ Length(v) = 0
\* data[f] of a plain object, undefined when the property is missing
Prop(data, f) == IF f \in DOMAIN data THEN data[f] ELSE JsUndefined
\* data[f] for the properties that hold an id
GetId(data, f) == IF f \in DOMAIN data THEN data[f] ELSE Undefined

\* s.trim() on the characters of a string
RECURSIVE TrimStart(_)
TrimStart(s) == IF s # <<>> /\ Head(s) = " " THEN TrimStart(Tail(s)) ELSE s
RECURSIVE TrimEnd(_)
TrimEnd(s) == IF s # <<>> /\ s[Len(s)] = " " THEN TrimEnd(SubSeq(s, 1, Len(s) - 1)) ELSE s
Trim(s) == TrimEnd(TrimStart(s))
\* v.trim().length for a string; a timestamp or date string has no blanks
TrimmedLength(v) == IF "c" \in DOMAIN v THEN Len(Trim(v.c)) ELSE Length(v)

Digits == [c \in {"0", "1", "2", "3", "4", "5", "6", "7", "8", "9"} |->
             CASE c = "0" -> 0 [] c = "1" -> 1 [] c = "2" -> 2 [] c = "3" -> 3
               [] c = "4" -> 4 [] c = "5" -> 5 [] c = "6" -> 6 [] c = "7" -> 7
               [] c = "8" -> 8 [] c = "9" -> 9]
IsDigits(s) == \A i \in 1..Len(s) : s[i] \in DOMAIN Digits
\* the number written by a sequence of digits
RECURSIVE DigitsValue(_)
DigitsValue(s) ==
    IF s = <<>> THEN 0 ELSE 10 * DigitsValue(SubSeq(s, 1, Len(s) - 1)) + Digits[s[Len(s)]]
\* the position of the first "." in s, Len(s) + 1 when there is none
RECURSIVE PointAt(_, _)
PointAt(s, i) == IF i > Len(s) \/ s[i] = "." THEN i ELSE PointAt(s, i + 1)
\* up to three decimals as thousandths; further decimals are beyond the
\* resolution of Num and do not occur in the inputs
Thousandths(s) == DigitsValue(SubSeq(s \o <<"0", "0", "0">>, 1, 3))
\* the number written by digits, an optional "." and more digits
Unsigned(s) ==
    LET p == PointAt(s, 1)
        whole == SubSeq(s, 1, p - 1)
        frac == SubSeq(s, p + 1, Len(s))
    IN IF IsDigits(whole) /\ IsDigits(frac) /\ Len(whole) + Len(frac) > 0
       THEN Num(DigitsValue(whole), Thousandths(frac))
       ELSE JsNaN
\* -n for a number n
Negate(n) ==
    IF TypeOf(n) # "number" THEN n
    ELSE IF n.f = 0 THEN Num(0 - n.w, 0)
    ELSE Num(0 - n.w - 1, 1000 - n.f)
\* Number(s) for the characters of a string: blank is 0, a decimal numeral
\* is its value, anything else NaN
StringToNumber(s) ==
    LET x == Trim(s)
    IN IF x = <<>> THEN Zero
       ELSE IF Head(x) = "-" THEN Negate(Unsigned(Tail(x)))
       ELSE Unsigned(x)
\* Number(v)
ToNumber(v) ==
    CASE TypeOf(v) = "number" -> v
      [] TypeOf(v) = "null" -> Zero
      [] TypeOf(v) = "string" -> IF "c" \in DOMAIN v THEN StringToNumber(v.c) ELSE JsNaN
      [] OTHER -> JsNaN
\* the longest prefix of s that is a decimal numeral
RECURSIVE NumeralPrefix(_, _, _)
NumeralPrefix(s, i, seenPoint) ==
    IF i > Len(s) THEN s
    ELSE IF s[i] \in DOMAIN Digits THEN NumeralPrefix(s, i + 1, seenPoint)
    ELSE IF s[i] = "." /\ ~seenPoint THEN NumeralPrefix(s, i + 1, TRUE)
    ELSE SubSeq(s, 1, i - 1)
\* parseFloat(v): the number at the start of the string, NaN when there is
\* none
parseFloat(v) ==
    IF TypeOf(v) = "number" THEN v
    ELSE IF TypeOf(v) # "string" \/ "c" \notin DOMAIN v THEN JsNaN
    ELSE LET x == TrimStart(v.c)
         IN IF x # <<>> /\ Head(x) = "-"
            THEN Negate(Unsigned(NumeralPrefix(Tail(x), 1, FALSE)))
            ELSE Unsigned(NumeralPrefix(x, 1, FALSE))
\* isNaN(n), Number.isInteger(n), a < b and a > b for the result of Number()
IsNaN(n) == TypeOf(n) = "nan"
IsInteger(n) == TypeOf(n) = "number" /\ n.f = 0
Less(a, b) == ~IsNaN(a) /\ ~IsNaN(b) /\ (a.w < b.w \/ (a.w = b.w /\ a.f < b.f))
Greater(a, b) == Less(b, a)

\* new Date(v).getTime() is NaN
InvalidDate == [invalid |-> TRUE]
\* new Date(v) for a string v
NewDate(v) ==
    IF "iso" \in DOMAIN v THEN DateOf(v.iso)
    ELSE IF "date" \in DOMAIN v THEN v.date
    ELSE InvalidDate

\* --------------------------------------------------- validation results
\* a message and the values interpolated into it
Msg(text) == [text |-> text, args |-> <<>>]
MsgWith(text, args) == [text |-> text, args |-> args]
Valid == [valid |-> TRUE]
ValidField(field) == [valid |-> TRUE, field |-> field]
Invalid(field, message) == [valid |-> FALSE, field |-> field, message |-> message]
\* the results pushed to `errors` by validate(): those that are not valid,
\* in the order of the checks
Errors(checks) == SelectSeq(checks, LAMBDA c : ~c.valid)
\* a validate() that stops at the first check that fails
Validation_FirstOnly(checks) ==
    [valid |-> Len(Errors(checks)) = 0,
     errors |-> IF Len(Errors(checks)) = 0 THEN <<>> ELSE <<Errors(checks)[1]>>]
\* { valid: errors.length === 0, errors }
Validation(checks) == [valid |-> Len(Errors(checks)) = 0, errors |-> Errors(checks)]

\* an id that is a string of blanks
BlankId == " "
\* !id for an id
IdFalsy(id) == id \in {"", Undefined}
\* !id || typeof id !== 'string' || id.trim() === ''
IdInvalid(id) == id \in {"", Undefined, NumberId, BlankId}

\* ---------------------------------------------------------------- Vehicle
minYear == 1886
MaxMileage == Num(10000000, 0)

\* new Vehicle(data) at Date.now() = t, where generateId() gives genId
Vehicle_new(data, t, genId) ==
    [id |-> IF IdFalsy(GetId(data, "id")) THEN genId ELSE data.id,
     make |-> IF Falsy(Prop(data, "make")) THEN EmptyStr ELSE data.make,
     model |-> IF Falsy(Prop(data, "model")) THEN EmptyStr ELSE data.model,
     year |-> IF Falsy(Prop(data, "year")) THEN JsNull ELSE data.year,
     mileage |-> IF Falsy(Prop(data, "mileage")) THEN Zero ELSE data.mileage,
     createdAt |-> IF Falsy(Prop(data, "createdAt")) THEN toISOString(t) ELSE data.createdAt,
     updatedAt |-> IF Falsy(Prop(data, "updatedAt")) THEN toISOString(t) ELSE data.updatedAt]

Vehicle_validateId(v) ==
    IF IdInvalid(v.id)
    THEN Invalid("id", Msg("Vehicle ID is required and must be a non-empty string"))
    ELSE Valid

Vehicle_validateMake(v) ==
    IF Falsy(v.make) \/ TypeOf(v.make) # "string"
    THEN Invalid("make", Msg("Vehicle make is required and must be a string"))
    ELSE IF TrimmedLength(v.make) = 0
    THEN Invalid("make", Msg("Vehicle make cannot be empty"))
    ELSE IF TrimmedLength(v.make) > 100
    THEN Invalid("make", Msg("Vehicle make must be 100 characters or less"))
    ELSE Valid

Vehicle_validateModel(v) ==
    IF Falsy(v.model) \/ TypeOf(v.model) # "string"
    THEN Invalid("model", Msg("Vehicle model is required and must be a string"))
    ELSE IF TrimmedLength(v.model) = 0
    THEN Invalid("model", Msg("Vehicle model cannot be empty"))
    ELSE IF TrimmedLength(v.model) > 100
    THEN Invalid("model", Msg("Vehicle model must be 100 characters or less"))
    ELSE Valid

Vehicle_validateYear(v, t) ==
    IF TypeOf(v.year) \in {"null", "undefined"}
    THEN Invalid("year", Msg("Vehicle year is required"))
    ELSE LET yearNum == ToNumber(v.year)
             currentYear == getFullYear(t)
         IN IF ~IsInteger(yearNum)
            THEN Invalid("year", Msg("Vehicle year must be a valid integer"))
            ELSE IF yearNum.w < minYear \/ yearNum.w > currentYear + 1
            THEN Invalid("year", MsgWith("Vehicle year must be between",
                                         <<minYear, currentYear + 1>>))
            ELSE Valid

Vehicle_validateMileage(v) ==
    IF TypeOf(v.mileage) \in {"null", "undefined"}
    THEN Invalid("mileage", Msg("Vehicle mileage is required"))
    ELSE LET mileageNum == ToNumber(v.mileage)
         IN IF IsNaN(mileageNum)
            THEN Invalid("mileage", Msg("Vehicle mileage must be a valid number"))
            ELSE IF Less(mileageNum, Zero)
            THEN Invalid("mileage", Msg("Vehicle mileage cannot be negative"))
            ELSE IF Greater(mileageNum, MaxMileage)
            THEN Invalid("mileage", Msg("Vehicle mileage exceeds maximum allowed value"))
            ELSE Valid

\* the five checks of Vehicle.validate() in the order they are made
Vehicle_checks(v, t) ==
    <<Vehicle_validateId(v), Vehicle_validateMake(v), Vehicle_validateModel(v),
      Vehicle_validateYear(v, t), Vehicle_validateMileage(v)>>
\* vehicle.validate() at Date.now() = t
Vehicle_validate(v, t) == Validation(Vehicle_checks(v, t))

\* vehicle.toJSON() at Date.now() = t
Vehicle_toJSON(v, t) ==
    [id |-> v.id, make |-> v.make, model |-> v.model, year |-> v.year,
     mileage |-> v.mileage, createdAt |-> v.createdAt, updatedAt |-> toISOString(t)]

\* Vehicle.fromJSON(data) at Date.now() = t: it throws on data that is no
\* object
Vehicle_fromJSON(data, t, genId) ==
    IF ~IsObject(data) THEN [r |-> JsNull, exc |-> "escaped"]
    ELSE [r |-> Vehicle_new([id |-> GetId(data, "id"), make |-> Prop(data, "make"),
                             model |-> Prop(data, "model"), year |-> Prop(data, "year"),
                             mileage |-> Prop(data, "mileage"),
                             createdAt |-> Prop(data, "createdAt"),
                             updatedAt |-> Prop(data, "updatedAt")], t, genId),
          exc |-> "none"]

\* the fields update() may assign
VehicleDataFields == {"make", "model", "year", "mileage"}
\* `if (updates.f !== undefined) this.f = updates.f` for the data fields
Staged(x, updates, fields) ==
    [f \in DOMAIN x |-> IF f \in fields /\ TypeOf(Prop(updates, f)) # "undefined"
                        THEN updates[f] ELSE x[f]]
\* a rollback that restores nothing
Rollback_Nothing(x, originalValues, fields) == x
\* this.f = originalValues.f for the data fields
Rollback(x, originalValues, fields) ==
    [f \in DOMAIN x |-> IF f \in fields THEN originalValues[f] ELSE x[f]]

\* vehicle.update(updates) at Date.now() = t: the instance after the call
\* and the result.  Nothing in the try block throws for these values, so
\* the catch block, which rolls back the same way, is not reached
Vehicle_update(v, updates, t) ==
    IF ~IsObject(updates)
    THEN [x |-> v, r |-> [success |-> FALSE, message |-> "Invalid updates provided"]]
    ELSE LET staged == Staged(v, updates, VehicleDataFields)
             validation == Vehicle_validate(staged, t)
         IN IF ~validation.valid
            THEN [x |-> Rollback(staged, v, VehicleDataFields),
                  r |-> [success |-> FALSE, message |-> "Validation failed",
                         errors |-> validation.errors]]
            ELSE [x |-> [staged EXCEPT !.updatedAt = toISOString(t)],
                  r |-> [success |-> TRUE, message |-> "Vehicle updated successfully"]]

\* ------------------------------------------------------ MaintenanceRecord
MaxCost == Num(1000000, 0)

\* new MaintenanceRecord(data) at Date.now() = t
MaintenanceRecord_new(data, t, genId) ==
    [id |-> IF IdFalsy(GetId(data, "id")) THEN genId ELSE data.id,
     vehicleId |-> IF IdFalsy(GetId(data, "vehicleId")) THEN "" ELSE data.vehicleId,
     date |-> IF Falsy(Prop(data, "date")) THEN toISOString(t) ELSE data.date,
     serviceType |-> IF Falsy(Prop(data, "serviceType")) THEN EmptyStr ELSE data.serviceType,
     description |-> IF Falsy(Prop(data, "description")) THEN EmptyStr ELSE data.description,
     cost |-> IF Falsy(Prop(data, "cost")) THEN Zero ELSE data.cost,
     createdAt |-> IF Falsy(Prop(data, "createdAt")) THEN toISOString(t) ELSE data.createdAt,
     updatedAt |-> IF Falsy(Prop(data, "updatedAt")) THEN toISOString(t) ELSE data.updatedAt]

MaintenanceRecord_validateId(x) ==
    IF IdInvalid(x.id)
    THEN Invalid("id", Msg("Maintenance record ID is required and must be a non-empty string"))
    ELSE Valid

MaintenanceRecord_validateVehicleId(x) ==
    IF IdFalsy(x.vehicleId) \/ x.vehicleId = NumberId
    THEN Invalid("vehicleId", Msg("Vehicle ID is required and must be a string"))
    ELSE IF x.vehicleId = BlankId
    THEN Invalid("vehicleId", Msg("Vehicle ID cannot be empty"))
    ELSE Valid

\* the bounds shared by the date checks: not after the end of the day
\* `daysAhead` days from now, not before 100 years before now
DateBounds(dateObj, t, daysAhead, formatMessage) ==
    IF dateObj = InvalidDate
    THEN Invalid("date", Msg(formatMessage))
    ELSE IF DateAfter(dateObj, EndOfDay(DateOf(t), daysAhead))
    THEN Invalid("date", Msg("Service date cannot be in the future"))
    ELSE IF DateBefore(dateObj, HundredYearsBefore(DateOf(t)))
    THEN Invalid("date", Msg("Service date is too far in the past"))
    ELSE ValidField("date")

MaintenanceRecord_validateDate(x, t) ==
    IF Falsy(x.date) \/ TypeOf(x.date) # "string"
    THEN Invalid("date", Msg("Service date is required and must be a string"))
    ELSE LET b == DateBounds(NewDate(x.date), t, 1, "Service date must be a valid date")
         IN IF b.valid THEN Valid ELSE b

MaintenanceRecord_validateServiceType(x) ==
    IF Falsy(x.serviceType) \/ TypeOf(x.serviceType) # "string"
    THEN Invalid("serviceType", Msg("Service type is required and must be a string"))
    ELSE IF TrimmedLength(x.serviceType) = 0
    THEN Invalid("serviceType", Msg("Service type cannot be empty"))
    ELSE IF TrimmedLength(x.serviceType) > 100
    THEN Invalid("serviceType", Msg("Service type must be 100 characters or less"))
    ELSE Valid

MaintenanceRecord_validateDescription(x) ==
    IF TypeOf(x.description) \in {"null", "undefined"}
    THEN Invalid("description", Msg("Description is required"))
    ELSE IF TypeOf(x.description) # "string"
    THEN Invalid("description", Msg("Description must be a string"))
    ELSE IF Length(x.description) > 5000
    THEN Invalid("description", Msg("Description must be 5000 characters or less"))
    ELSE Valid

MaintenanceRecord_validateCost(x) ==
    IF TypeOf(x.cost) \in {"null", "undefined"}
    THEN Invalid("cost", Msg("Cost is required"))
    ELSE LET costNum == ToNumber(x.cost)
         IN IF IsNaN(costNum)
            THEN Invalid("cost", Msg("Cost must be a valid number"))
            ELSE IF Less(costNum, Zero)
            THEN Invalid("cost", Msg("Cost cannot be negative"))
            ELSE IF Greater(costNum, MaxCost)
            THEN Invalid("cost", Msg("Cost exceeds maximum allowed value"))
            ELSE Valid

\* the six checks of MaintenanceRecord.validate() in the order they are made
MaintenanceRecord_checks(x, t) ==
    <<MaintenanceRecord_validateId(x), MaintenanceRecord_validateVehicleId(x),
      MaintenanceRecord_validateDate(x, t), MaintenanceRecord_validateServiceType(x),
      MaintenanceRecord_validateDescription(x), MaintenanceRecord_validateCost(x)>>
\* record.validate() at Date.now() = t
MaintenanceRecord_validate(x, t) == Validation(MaintenanceRecord_checks(x, t))

\* record.toJSON() at Date.now() = t
MaintenanceRecord_toJSON(x, t) ==
    [id |-> x.id, vehicleId |-> x.vehicleId, date |-> x.date,
     serviceType |-> x.serviceType, description |-> x.description, cost |-> x.cost,
     createdAt |-> x.createdAt, updatedAt |-> toISOString(t)]

\* MaintenanceRecord.fromJSON(data) at Date.now() = t
MaintenanceRecord_fromJSON(data, t, genId) ==
    IF ~IsObject(data) THEN [r |-> JsNull, exc |-> "escaped"]
    ELSE [r |-> MaintenanceRecord_new(
                    [id |-> GetId(data, "id"), vehicleId |-> GetId(data, "vehicleId"),
                     date |-> Prop(data, "date"), serviceType |-> Prop(data, "serviceType"),
                     description |-> Prop(data, "description"), cost |-> Prop(data, "cost"),
                     createdAt |-> Prop(data, "createdAt"),
                     updatedAt |-> Prop(data, "updatedAt")], t, genId),
          exc |-> "none"]

RecordDataFields == {"date", "serviceType", "description", "cost"}
\* `if (updates.f !== undefined) this.f = updates.f` for vehicleId and the
\* data fields
StagedRecord(x, updates) ==
    [Staged(x, updates, RecordDataFields)
        EXCEPT !.vehicleId = IF GetId(updates, "vehicleId") # Undefined
                             THEN updates.vehicleId ELSE x.vehicleId]

\* record.update(updates) at Date.now() = t
MaintenanceRecord_update(x, updates, t) ==
    IF ~IsObject(updates)
    THEN [x |-> x, r |-> [success |-> FALSE, message |-> "Invalid updates provided"]]
    ELSE LET staged == StagedRecord(x, updates)
             validation == MaintenanceRecord_validate(staged, t)
         IN IF ~validation.valid
            THEN [x |-> Rollback(staged, x, RecordDataFields \cup {"vehicleId"}),
                  r |-> [success |-> FALSE, message |-> "Validation failed",
                         errors |-> validation.errors]]
            ELSE [x |-> [staged EXCEPT !.updatedAt = toISOString(t)],
                  r |-> [success |-> TRUE,
                         message |-> "Maintenance record updated successfully"]]

\* --------------------------------------------------------- formValidator
\* the standalone validateMake(make)
validateMake(make) ==
    IF Falsy(make) \/ TypeOf(make) # "string"
    THEN Invalid("make", Msg("Vehicle make is required"))
    ELSE IF TrimmedLength(make) = 0
    THEN Invalid("make", Msg("Vehicle make cannot be empty"))
    ELSE IF TrimmedLength(make) < 2
    THEN Invalid("make", Msg("Vehicle make must be at least 2 characters"))
    ELSE IF TrimmedLength(make) > 100
    THEN Invalid("make", Msg("Vehicle make must be 100 characters or less"))
    ELSE ValidField("make")

validateModel(model) ==
    IF Falsy(model) \/ TypeOf(model) # "string"
    THEN Invalid("model", Msg("Vehicle model is required"))
    ELSE IF TrimmedLength(model) = 0
    THEN Invalid("model", Msg("Vehicle model cannot be empty"))
    ELSE IF TrimmedLength(model) > 100
    THEN Invalid("model", Msg("Vehicle model must be 100 characters or less"))
    ELSE ValidField("model")

\* year === null || year === undefined || year === ''
Missing(v) == TypeOf(v) \in {"null", "undefined"} \/ (TypeOf(v) = "string" /\ Length(v) = 0)

\* the standalone validateYear(year) at Date.now() = t; its own minYear is
\* 1886 as well
validateYear(year, t) ==
    IF Missing(year)
    THEN Invalid("year", Msg("Vehicle year is required"))
    ELSE LET yearNum == ToNumber(year)
             currentYear == getFullYear(t)
         IN IF ~IsInteger(yearNum)
            THEN Invalid("year", Msg("Vehicle year must be a valid number"))
            ELSE IF yearNum.w < minYear
            THEN Invalid("year", MsgWith("Vehicle year must be or later", <<minYear>>))
            ELSE IF yearNum.w > currentYear + 1
            THEN Invalid("year", MsgWith("Vehicle year cannot exceed", <<currentYear + 1>>))
            ELSE ValidField("year")

validateMileage(mileage) ==
    IF Missing(mileage)
    THEN Invalid("mileage", Msg("Vehicle mileage is required"))
    ELSE LET mileageNum == ToNumber(mileage)
         IN IF IsNaN(mileageNum)
            THEN Invalid("mileage", Msg("Vehicle mileage must be a valid number"))
            ELSE IF Less(mileageNum, Zero)
            THEN Invalid("mileage", Msg("Vehicle mileage cannot be negative"))
            ELSE IF Greater(mileageNum, MaxMileage)
            THEN Invalid("mileage", Msg("Vehicle mileage exceeds maximum allowed value"))
            ELSE ValidField("mileage")

\* the standalone validateAllFields(formData): a field is checked when it
\* is not undefined
validateAllFields(formData, t) ==
    LET check(f, result) == IF TypeOf(Prop(formData, f)) = "undefined" THEN ValidField(f)
                            ELSE result
    IN Validation(<<check("make", validateMake(Prop(formData, "make"))),
                    check("model", validateModel(Prop(formData, "model"))),
                    check("year", validateYear(Prop(formData, "year"), t)),
                    check("mileage", validateMileage(Prop(formData, "mileage")))>>)

\* the standalone validateDate(date) at Date.now() = t
validateDate(date, t) ==
    IF Falsy(date) \/ TypeOf(date) # "string" \/ TrimmedLength(date) = 0
    THEN Invalid("date", Msg("Service date is required"))
    ELSE DateBounds(NewDate(date), t, 1, "Service date must be a valid date")

\* ------------------------------------------------------------ VehicleForm
\* what handleSubmit came to: the DataManager state after it, how it ended
\* ("invalid": a validation failed and nothing was sent to the DataManager;
\* "sent": the result r of the DataManager call) and the validation errors
FormOutcome(w, kind, errors, r) == [w |-> w, kind |-> kind, errors |-> errors, r |-> r]
\* this.currentVehicleId / this.currentRecordId when nothing is being edited
NoCurrentId == ""
\* formData.get(name)?.trim() || ''
TrimmedField(v) == IF TypeOf(v) = "string" /\ "c" \in DOMAIN v THEN Str(Trim(v.c)) ELSE v

\* the object handleSubmit builds from the fields of the vehicle form
VehicleFormData(fields) ==
    [make |-> TrimmedField(fields.make),
     model |-> TrimmedField(fields.model),
     year |-> IF Falsy(fields.year) THEN JsNull ELSE ToNumber(fields.year),
     mileage |-> IF Falsy(fields.mileage) THEN Zero ELSE ToNumber(fields.mileage)]

\* a handleSubmit that hands the form data to the DataManager unchecked
VehicleForm_handleSubmit_Unchecked(w, fields, currentVehicleId, t, genId, env, order) ==
    LET o == addVehicle(w, Vehicle_toJSON(Vehicle_new(VehicleFormData(fields), t, genId), t),
                        t, genId, env, order)
    IN FormOutcome(o.w, "sent", <<>>, o.r)

\* VehicleForm.handleSubmit at Date.now() = t with the given field strings;
\* genId is what Vehicle.generateId() returns
VehicleForm_handleSubmit(w, fields, currentVehicleId, t, genId, env, order) ==
    LET vehicleData == VehicleFormData(fields)
        validation == validateAllFields(vehicleData, t)
    IN IF ~validation.valid THEN FormOutcome(w, "invalid", validation.errors, NoData)
       ELSE IF currentVehicleId # NoCurrentId
       THEN LET o == updateVehicle(w, currentVehicleId, vehicleData, t, env, order)
            IN FormOutcome(o.w, "sent", <<>>, o.r)
       ELSE LET vehicle == Vehicle_new(vehicleData, t, genId)
                vehicleValidation == Vehicle_validate(vehicle, t)
            IN IF ~vehicleValidation.valid
               THEN FormOutcome(w, "invalid", vehicleValidation.errors, NoData)
               ELSE LET o == addVehicle(w, Vehicle_toJSON(vehicle, t), t, genId, env, order)
                    IN FormOutcome(o.w, "sent", <<>>, o.r)

\* -------------------------------------------------------- MaintenanceForm
MAX_DESCRIPTION_LENGTH == 5000

MaintenanceForm_validateDate(date, t) ==
    IF Falsy(date) \/ TrimmedLength(date) = 0
    THEN Invalid("date", Msg("Service date is required"))
    ELSE DateBounds(NewDate(date), t, 0, "Invalid date format")

MaintenanceForm_validateServiceType(serviceType) ==
    IF Falsy(serviceType) \/ TrimmedLength(serviceType) = 0
    THEN Invalid("serviceType", Msg("Service type is required"))
    ELSE IF Length(serviceType) > 100
    THEN Invalid("serviceType", Msg("Service type must be 100 characters or less"))
    ELSE ValidField("serviceType")

MaintenanceForm_validateDescription(description) ==
    IF ~Falsy(description) /\ Length(description) > MAX_DESCRIPTION_LENGTH
    THEN Invalid("description", Msg("Description must be 5000 characters or less"))
    ELSE ValidField("description")

MaintenanceForm_validateCost(cost) ==
    IF Missing(cost)
    THEN Invalid("cost", Msg("Cost is required"))
    ELSE LET numericCost == parseFloat(cost)
         IN IF IsNaN(numericCost)
            THEN Invalid("cost", Msg("Cost must be a valid number"))
            ELSE IF Less(numericCost, Zero)
            THEN Invalid("cost", Msg("Cost cannot be negative"))
            ELSE IF Greater(numericCost, MaxCost)
            THEN Invalid("cost", Msg("Cost exceeds maximum allowed value"))
            ELSE ValidField("cost")

MaintenanceForm_validateAllFields(formData, t) ==
    Validation(<<MaintenanceForm_validateDate(formData.date, t),
                 MaintenanceForm_validateServiceType(formData.serviceType),
                 MaintenanceForm_validateDescription(formData.description),
                 MaintenanceForm_validateCost(formData.cost)>>)

\* the object handleSubmit builds from the fields of the maintenance form
MaintenanceFormData(fields, currentVehicleId) ==
    [date |-> fields.date,
     serviceType |-> TrimmedField(fields.serviceType),
     description |-> TrimmedField(fields.description),
     cost |-> IF Falsy(fields.cost) THEN Zero ELSE parseFloat(fields.cost),
     vehicleId |-> currentVehicleId]

\* MaintenanceForm.handleSubmit at Date.now() = t with the given field
\* strings; genId is what MaintenanceRecord.generateId() returns
MaintenanceForm_handleSubmit(w, fields, currentVehicleId, currentRecordId, t, genId, env, order) ==
    LET maintenanceData == MaintenanceFormData(fields, currentVehicleId)
        validation == MaintenanceForm_validateAllFields(maintenanceData, t)
    IN IF ~validation.valid THEN FormOutcome(w, "invalid", validation.errors, NoData)
       ELSE IF IdFalsy(maintenanceData.vehicleId)
       THEN FormOutcome(w, "invalid",
                        <<Invalid("vehicleId", Msg("Please select a vehicle before adding maintenance records"))>>,
                        NoData)
       ELSE IF currentRecordId # NoCurrentId
       THEN LET o == updateMaintenanceRecord(w, currentRecordId, maintenanceData, t, env, order)
            IN FormOutcome(o.w, "sent", <<>>, o.r)
       ELSE LET record == MaintenanceRecord_new(maintenanceData, t, genId)
                recordValidation == MaintenanceRecord_validate(record, t)
            IN IF ~recordValidation.valid
               THEN FormOutcome(w, "invalid", recordValidation.errors, NoData)
               ELSE LET o == addMaintenanceRecord(w, MaintenanceRecord_toJSON(record, t),
                                                  t, genId, env, order)
                    IN FormOutcome(o.w, "sent", <<>>, o.r)

\* ---------------------------------------------------------------- inputs
\* the ids generateVehicleId / generateMaintenanceRecordId can produce
GeneratedVehicleIds == {"v2"}
GeneratedRecordIds == {"m2"}

VehicleInputs ==
    {[make |-> "A", year |-> 2020],
     [id |-> "v1", make |-> "A", year |-> 2020, createdAt |-> SuppliedTime]}

VehicleUpdates ==
    {[id |-> "v9", make |-> "B", createdAt |-> OtherTime, updatedAt |-> OtherTime]}

RecordInputs ==
    {[serviceType |-> "oil", cost |-> 10],
     [id |-> "m1", vehicleId |-> "v1", serviceType |-> "oil", cost |-> 10,
      createdAt |-> SuppliedTime]}

RecordUpdates ==
    {[id |-> "m9", serviceType |-> "tyres", createdAt |-> OtherTime,
      updatedAt |-> OtherTime]}

ImportInputs ==
    {[vehicles |-> JsArray(<<[id |-> "v1", make |-> "A", year |-> 2020,
                              createdAt |-> SuppliedTime, updatedAt |-> SuppliedTime]>>),
      maintenanceRecords |-> JsArray(<<[id |-> "m1", vehicleId |-> "v1",
                                        serviceType |-> "oil", cost |-> 10,
                                        createdAt |-> SuppliedTime,
                                        updatedAt |-> SuppliedTime]>>)],
     [vehicles |-> EmptyArray, maintenanceRecords |-> JsNumber]}

\* search criteria: text (any case), a number where text is expected, and
\* numeric and date bounds
VehicleCriteria ==
    {[make |-> "a"], [make |-> NotAString], [model |-> "a", year |-> 2020],
     [minMileage |-> 0, maxMileage |-> 5]}

RecordCriteria ==
    {[serviceType |-> "OI"], [serviceType |-> NotAString],
     [vehicleId |-> "v1", minCost |-> 5, maxCost |-> 10],
     [startDate |-> 1, endDate |-> 2]}

\* what a collection key can hold when the page is loaded, left there by an
\* earlier session or another script of the origin: an array, values that are
\* not arrays (a number, null, text that is not JSON) and an array with a
\* record that lacks the string fields followed by a null element
StoredBefore(rec) ==
    {JSON_stringify(EmptyArray), JSON_stringify(JsNumber), JSON_stringify(JsNull),
     RawText("garbage"), JSON_stringify(JsArray(<<rec, NullElem>>))}

\* the moments at which calls are made: page load, the last millisecond of
\* the freshness window that starts at page load, and the first one after it
Times == {StartTime, StartTime + cacheExpiry - 1, StartTime + cacheExpiry}

\* ---------------------------------------------- StorageService inputs
\* the keys of the origin's localStorage when StorageService is used alone
StorageKeys == Keys \cup {STORAGE_KEYS.LAST_BACKUP}
\* two enumeration orders of localStorage.key(i)
StorageKeyOrders ==
    {<<versionKey, STORAGE_KEYS.VEHICLES, STORAGE_KEYS.MAINTENANCE_RECORDS,
       STORAGE_KEYS.LAST_BACKUP>>,
     <<STORAGE_KEYS.LAST_BACKUP, STORAGE_KEYS.MAINTENANCE_RECORDS, STORAGE_KEYS.VEHICLES,
       versionKey>>}
\* outcomes of the localStorage calls of one set, with a removeItem that
\* throws among them
StorageWriteEnvs == WriteEnvs \cup {"quotaRemoveThrows"}
\* whether a localStorage read (getItem, key, length) or removeItem throws
ReadEnvs == {"ok", "throws"}
ClearEnvs == {"ok", "getThrows", "clearThrows", "setThrows"}
InitEnvs == {"ok", "getThrows", "setThrows"}
\* values handed to set: a number, a string, undefined, NaN and an object
\* that refers to itself
StorageValues == {JsNumber, JsText("hello"), JsUndefined, JsNaN, JsCircular}
\* the values among them that JSON represents
JsonValues == {JsNumber, JsText("hello")}
\* objects handed to importAll
StorageImports ==
    {[entries |-> <<[key |-> STORAGE_KEYS.VEHICLES, value |-> JsNumber]>>],
     [entries |-> <<[key |-> versionKey, value |-> JsText("hello")],
                    [key |-> STORAGE_KEYS.LAST_BACKUP, value |-> JsNaN]>>],
     [entries |-> <<[key |-> EmptyId, value |-> JsNumber]>>]}
\* the version item an earlier session can have left
StoredVersions == {Absent, RawText(version), RawText("0.9.0")}

\* ------------------------------------------------------- the page's state
\* the page holds no value returned by an earlier call
NothingHeld == [t |-> "null", a |-> <<>>]

\* no DataManager call made, no success message shown, no timer pending
NoCall == [op |-> "none", id |-> NoCurrentId]
NoMessage == ""
NoTimeout == 0

\* new VehicleForm(containerId).  form: this.form is set; lastCall and
\* successMessage: what the last handleSubmit called and showed; the four
\* inputs are set up alike and are followed as one: blurListener and
\* inputListener are the listeners setupRealTimeValidation added, cleanup is
\* the input's _cleanupValidation property, inputTimeout the time at which
\* the pending debounce timer is due
VehicleForm_constructor ==
    [form |-> FALSE, isInitialized |-> FALSE, currentVehicleId |-> NoCurrentId,
     lastCall |-> NoCall, successMessage |-> NoMessage,
     blurListener |-> FALSE, inputListener |-> FALSE, cleanup |-> FALSE,
     inputTimeout |-> NoTimeout, validated |-> "never"]

\* new MaintenanceForm(containerId)
MaintenanceForm_constructor ==
    [form |-> FALSE, isInitialized |-> FALSE, currentRecordId |-> NoCurrentId,
     currentVehicleId |-> NoCurrentId, lastCall |-> NoCall, successMessage |-> NoMessage]

\* the callers of app.init(): the script itself and other modules that
\* import the exported app
InitCallers == {1, 2, 3}

\* AppState when app.js has run to `new Application()`, with the page around
\* it: document.readyState is "loading", no global listener installed, no
\* vehicle form created, 'app:ready' not dispatched, no init() call made
Application_constructor ==
    [isInitialized |-> FALSE, isDOMReady |-> FALSE, loading |-> TRUE,
     listeners |-> 0, forms |-> 0, ready |-> 0,
     pc |-> [c \in InitCallers |-> "idle"]]

\* ------------------------------------------------------------ the machine
\* the value a collection key holds as the manager reads it
Stored(store, key) == StorageService_get(store, key, EmptyArray)
StoredVehicles == Stored(ls, STORAGE_KEYS.VEHICLES)
StoredRecords == Stored(ls, STORAGE_KEYS.MAINTENANCE_RECORDS)

\* the state after `new StorageService()` and `dataManager.initialize()` on
\* a browser profile without earlier data
Init ==
    /\ storageAvailable \in BOOLEAN
    /\ ls = IF storageAvailable
            THEN [k \in Keys |-> IF k = versionKey THEN RawText(version)
                                 ELSE JSON_stringify(EmptyArray)]
            ELSE [k \in Keys |-> Absent]
    /\ vehiclesCache = JsNull
    /\ maintenanceRecordsCache = JsNull
    /\ lastVehiclesCacheTime = 0
    /\ lastMaintenanceCacheTime = 0
    /\ now = StartTime
    /\ vehicleInstance = NoInstance
    /\ recordInstance = NoInstance
    /\ held = NothingHeld
    /\ vehicleForm = VehicleForm_constructor
    /\ maintenanceForm = MaintenanceForm_constructor
    /\ editing = NoCurrentId
    /\ app = Application_constructor

\* the state after `new StorageService()` and `dataManager.initialize()` on
\* a profile whose collection keys already hold something: initialize only
\* writes the keys that are absent
InitRobust ==
    /\ storageAvailable \in BOOLEAN
    /\ ls \in IF storageAvailable
              THEN {[k \in Keys |-> IF k = versionKey THEN RawText(version)
                                    ELSE IF k = STORAGE_KEYS.VEHICLES THEN v ELSE m] :
                        v \in StoredBefore([id |-> "v1", year |-> 2020]),
                        m \in StoredBefore([id |-> "m1", vehicleId |-> "v1", cost |-> 10])}
              ELSE {[k \in Keys |-> Absent]}
    /\ vehiclesCache = JsNull
    /\ maintenanceRecordsCache = JsNull
    /\ lastVehiclesCacheTime = 0
    /\ lastMaintenanceCacheTime = 0
    /\ now = StartTime
    /\ vehicleInstance = NoInstance
    /\ recordInstance = NoInstance
    /\ held = NothingHeld
    /\ vehicleForm = VehicleForm_constructor
    /\ maintenanceForm = MaintenanceForm_constructor
    /\ editing = NoCurrentId
    /\ app = Application_constructor

\* the state after a call that left the world w
Apply(w) ==
    /\ ls' = w.ls
    /\ vehiclesCache' = w.vehiclesCache
    /\ maintenanceRecordsCache' = w.maintenanceRecordsCache
    /\ lastVehiclesCacheTime' = w.lastVehiclesCacheTime
    /\ lastMaintenanceCacheTime' = w.lastMaintenanceCacheTime
    /\ UNCHANGED <<storageAvailable, now, vehicleInstance, recordInstance,
                   held, vehicleForm, maintenanceForm, editing, app>>

\* time passes between two calls
Tick ==
    /\ \E t \in Times : t > now /\ now' = t
    /\ UNCHANGED <<storageAvailable, ls, vehiclesCache, maintenanceRecordsCache,
                   lastVehiclesCacheTime, lastMaintenanceCacheTime, vehicleInstance, recordInstance,
                   held, vehicleForm, maintenanceForm, editing, app>>

GetAllVehicles ==
    \E useCache \in BOOLEAN : Apply(getAllVehicles(World, useCache, now).w)

GetAllMaintenanceRecords ==
    \E useCache \in BOOLEAN : Apply(getAllMaintenanceRecords(World, useCache, now).w)

GetVehicleById ==
    \E id \in VehicleIds \cup BadIds : Apply(getVehicleById(World, id, now).w)

GetMaintenanceRecordById ==
    \E id \in RecordIds \cup BadIds : Apply(getMaintenanceRecordById(World, id, now).w)

GetMaintenanceRecordsByVehicleId ==
    \E id \in VehicleIds \cup BadIds :
        Apply(getMaintenanceRecordsByVehicleId(World, id, now).w)

\* the generated ids (a timestamp and nine random characters) are taken to
\* differ from the ids in the collection
FreshIds(ids, stored) ==
    {i \in ids : ~IsArray(stored) \/ FirstIndex(stored.a, "id", i) = 0}
\* the ids the generator can produce for a call with this data: it is only
\* called when the data carries no id
GeneratedIds(data, ids, stored) ==
    IF IsObject(data) /\ ~FieldTruthy(data, "id") THEN FreshIds(ids, stored)
    ELSE {Undefined}

AddVehicle ==
    \E data \in VehicleInputs \cup {NotAnObject}, env \in WriteEnvs, order \in KeyOrders :
      \E genId \in GeneratedIds(data, GeneratedVehicleIds, StoredVehicles) :
        Apply(addVehicle(World, data, now, genId, env, order).w)

UpdateVehicle ==
    \E id \in VehicleIds \cup BadIds, updates \in VehicleUpdates \cup {NotAnObject},
       env \in WriteEnvs, order \in KeyOrders :
        Apply(updateVehicle(World, id, updates, now, env, order).w)

DeleteVehicle ==
    \E id \in VehicleIds \cup BadIds, env \in WriteEnvs, env2 \in WriteEnvs,
       order \in KeyOrders :
        Apply(deleteVehicle(World, id, now, env, env2, order).w)

AddMaintenanceRecord ==
    \E data \in RecordInputs \cup {NotAnObject}, env \in WriteEnvs, order \in KeyOrders :
      \E genId \in GeneratedIds(data, GeneratedRecordIds, StoredRecords) :
        Apply(addMaintenanceRecord(World, data, now, genId, env, order).w)

UpdateMaintenanceRecord ==
    \E id \in RecordIds \cup BadIds, updates \in RecordUpdates \cup {NotAnObject},
       env \in WriteEnvs, order \in KeyOrders :
        Apply(updateMaintenanceRecord(World, id, updates, now, env, order).w)

DeleteMaintenanceRecord ==
    \E id \in RecordIds \cup BadIds, env \in WriteEnvs, order \in KeyOrders :
        Apply(deleteMaintenanceRecord(World, id, now, env, order).w)

DeleteMaintenanceRecordsByVehicleId ==
    \E id \in VehicleIds \cup BadIds, env \in WriteEnvs, order \in KeyOrders :
        Apply(deleteMaintenanceRecordsByVehicleId(World, id, now, env, order).w)

ExportAllData == Apply(exportAllData(World, now).w)

ImportAllData ==
    \E data \in ImportInputs \cup {NotAnObject}, clearFirst \in BOOLEAN,
       envs \in ImportEnvs, order \in KeyOrders :
        Apply(importAllData(World, data, clearFirst, envs, order).w)

ClearAllData ==
    \E envs \in [1..2 -> WriteEnvs], order \in KeyOrders :
        Apply(clearAllData(World, envs, order).w)

SearchVehicles ==
    \E criteria \in VehicleCriteria \cup {NotAnObject} :
        Apply(searchVehicles(World, criteria, now).w)

SearchMaintenanceRecords ==
    \E criteria \in RecordCriteria \cup {NotAnObject} :
        Apply(searchMaintenanceRecords(World, criteria, now).w)

\* the public operations of DataManager, called at one moment (every call
\* falls inside the freshness window of every cache fill)
Next ==
    \/ GetAllVehicles
    \/ GetAllMaintenanceRecords
    \/ GetVehicleById
    \/ GetMaintenanceRecordById
    \/ GetMaintenanceRecordsByVehicleId
    \/ AddVehicle
    \/ UpdateVehicle
    \/ DeleteVehicle
    \/ AddMaintenanceRecord
    \/ UpdateMaintenanceRecord
    \/ DeleteMaintenanceRecord
    \/ DeleteMaintenanceRecordsByVehicleId
    \/ ExportAllData
    \/ ImportAllData
    \/ ClearAllData
    \/ SearchVehicles
    \/ SearchMaintenanceRecords

Spec == Init /\ [][Next]_vars

\* the same operations on a store that already held data at page load
SpecRobust == InitRobust /\ [][Next]_vars

\* add, update and delete of both entities (no import, no clear)
NextCrud ==
    \/ AddVehicle
    \/ UpdateVehicle
    \/ DeleteVehicle
    \/ AddMaintenanceRecord
    \/ UpdateMaintenanceRecord
    \/ DeleteMaintenanceRecord

SpecCrud == Init /\ [][NextCrud]_vars

\* reads and writes of both collections with time passing between the calls
NextTimed ==
    \/ Tick
    \/ GetAllVehicles
    \/ GetAllMaintenanceRecords
    \/ AddVehicle
    \/ DeleteVehicle
    \/ AddMaintenanceRecord
    \/ ClearAllData

SpecTimed == Init /\ [][NextTimed]_vars

\* ------------------------------------------- StorageService on its own
\* the state after `new StorageService()` on a profile that holds at most a
\* version item
InitStorage ==
    /\ \E v \in StoredVersions, c \in ReadEnvs, i \in InitEnvs :
          LET o == StorageService_constructor(
                       [k \in StorageKeys |-> IF k = versionKey THEN v ELSE Absent], c, i)
          IN storageAvailable = o.available /\ ls = o.ls
    /\ vehiclesCache = JsNull
    /\ maintenanceRecordsCache = JsNull
    /\ lastVehiclesCacheTime = 0
    /\ lastMaintenanceCacheTime = 0
    /\ now = StartTime
    /\ vehicleInstance = NoInstance
    /\ recordInstance = NoInstance
    /\ held = NothingHeld
    /\ vehicleForm = VehicleForm_constructor
    /\ maintenanceForm = MaintenanceForm_constructor
    /\ editing = NoCurrentId
    /\ app = Application_constructor

\* the state after a StorageService call that left the localStorage store
ApplyStore(store) ==
    /\ ls' = store
    /\ UNCHANGED <<storageAvailable, vehiclesCache, maintenanceRecordsCache,
                   lastVehiclesCacheTime, lastMaintenanceCacheTime, now,
                   vehicleInstance, recordInstance,
                   held, vehicleForm, maintenanceForm, editing, app>>

\* the page is loaded again: a new StorageService is constructed
Construct ==
    \E c \in ReadEnvs, i \in InitEnvs :
        LET o == StorageService_constructor(ls, c, i)
        IN /\ storageAvailable' = o.available
           /\ ls' = o.ls
           /\ UNCHANGED <<vehiclesCache, maintenanceRecordsCache,
                          lastVehiclesCacheTime, lastMaintenanceCacheTime, now,
                   vehicleInstance, recordInstance,
                   held, vehicleForm, maintenanceForm, editing, app>>

Set ==
    \E key \in StorageKeys \cup BadIds, value \in StorageValues,
       env \in StorageWriteEnvs, order \in StorageKeyOrders :
        ApplyStore(StorageService_set(ls, key, value, env, order).ls)

Remove ==
    \E key \in StorageKeys \cup BadIds, env \in ReadEnvs :
        ApplyStore(StorageService_remove(ls, key, env).ls)

Clear ==
    \E includeVersion \in BOOLEAN, env \in ClearEnvs :
        ApplyStore(StorageService_clear(ls, includeVersion, env).ls)

ImportAll ==
    \E data \in StorageImports \cup {NotAnObject}, clearFirst \in BOOLEAN,
       clearEnv \in ClearEnvs, envs \in [1..2 -> StorageWriteEnvs],
       order \in StorageKeyOrders :
        ApplyStore(StorageService_importAll(ls, data, clearFirst, clearEnv, envs, order).ls)

\* get, has, getAllKeys and exportAll change nothing
Get ==
    \E key \in StorageKeys \cup BadIds, env \in ReadEnvs :
        ApplyStore(ls)

NextStorage ==
    \/ Construct
    \/ Set
    \/ Remove
    \/ Clear
    \/ ImportAll
    \/ Get

SpecStorage == InitStorage /\ [][NextStorage]_vars

\* ------------------------------------------------ model and form inputs
\* String(n) for a natural number n
RECURSIVE Numeral(_)
Numeral(n) ==
    LET d == CHOOSE c \in DOMAIN Digits : Digits[c] = n % 10
    IN IF n < 10 THEN <<d>> ELSE Numeral(n \div 10) \o <<d>>
\* a text of n characters
LongText(n) == [i \in 1..n |-> "x"]
Ford == <<"F", "o", "r", "d">>
Ka == <<"K", "a">>
Oil == <<"o", "i", "l">>
Tyres == <<"t", "y", "r", "e", "s">>

\* the moments at which the models are used: page load on 31 December of
\* BaseYear, the last millisecond of that day, and the next day
ModelTimes == {StartTime, MsPerDay - 1, MsPerDay + StartTime}

\* arguments of new Vehicle(data): a new vehicle, a stored one whose year
\* is text, no fields at all, and fields that fail their check except the
\* model
VehicleData ==
    {[make |-> Str(Ford), model |-> Str(Ka), year |-> Num(2020, 0),
      mileage |-> Num(1000, 0)],
     [id |-> "v1", make |-> Str(Ford), model |-> Str(Ka), year |-> Str(Numeral(minYear)),
      mileage |-> Zero, createdAt |-> SuppliedTime, updatedAt |-> SuppliedTime],
     <<>>,
     [id |-> BlankId, make |-> Str(LongText(101)), model |-> Str(Ka),
      year |-> Num(minYear - 1, 0), mileage |-> Num(-1, 0)]}

\* arguments of vehicle.update(updates)
VehiclePartials ==
    {[mileage |-> Num(-1, 0)],
     [year |-> Num(BaseYear + 2, 0)],
     [make |-> Str(<<"B", "M", "W">>), mileage |-> Num(2000, 500)],
     [make |-> EmptyStr, model |-> Str(<<"T">>)],
     [year |-> JsNull],
     [id |-> "v9", updatedAt |-> OtherTime],
     NotAnObject}

\* arguments of new MaintenanceRecord(data): a new record dated today, a
\* stored one without date and description, no fields at all, fields that
\* all fail their check, and a cost with three decimals
RecordData ==
    {[vehicleId |-> "v1", date |-> DateStr(Instant(0, 0)), serviceType |-> Str(Oil),
      description |-> Str(<<"o", "k">>), cost |-> Num(10, 0)],
     [id |-> "m1", vehicleId |-> "v1", serviceType |-> Str(Oil),
      cost |-> Num(999999, 990), createdAt |-> SuppliedTime],
     <<>>,
     [id |-> NumberId, vehicleId |-> BlankId, date |-> Str(<<"x">>),
      serviceType |-> Str(LongText(101)), description |-> Num(5, 0),
      cost |-> Num(-1, 0)],
     [vehicleId |-> "v1", date |-> DateStr(Instant(1, 0)), serviceType |-> Str(Oil),
      cost |-> Num(10, 5)]}

\* arguments of record.update(updates)
RecordPartials ==
    {[cost |-> Num(-1, 0)],
     [cost |-> Num(10, 5)],
     [date |-> DateStr(Instant(2, 0))],
     [date |-> DateStr(Instant(0 - DaysIn100Years, 0))],
     [vehicleId |-> "", serviceType |-> Str(Tyres)],
     [description |-> Str(LongText(5001))],
     [serviceType |-> Str(Tyres), cost |-> Num(20, 0)],
     NotAnObject}

\* the date strings given to the date validators: around the end of today
\* and of tomorrow, around 100 years ago, and strings that are no date
DateInputs ==
    {DateStr(Instant(d, ms)) :
         d \in {-1, 0, 1, 2, 0 - DaysIn100Years, 1 - DaysIn100Years, -1 - DaysIn100Years},
         ms \in {0, StartTime, MsPerDay - 1}}
    \cup {EmptyStr, Str(<<" ">>), Str(<<"x">>), SuppliedTime}

\* ------------------------------------------------- the models on their own
\* a page that holds one Vehicle and one MaintenanceRecord instance
InitModels ==
    /\ storageAvailable = FALSE
    /\ ls = [k \in Keys |-> Absent]
    /\ vehiclesCache = JsNull
    /\ maintenanceRecordsCache = JsNull
    /\ lastVehiclesCacheTime = 0
    /\ lastMaintenanceCacheTime = 0
    /\ now = StartTime
    /\ vehicleInstance \in {Vehicle_new(d, now, g) : d \in VehicleData, g \in GeneratedVehicleIds}
    /\ recordInstance \in {MaintenanceRecord_new(d, now, g) : d \in RecordData,
                                                       g \in GeneratedRecordIds}
    /\ held = NothingHeld
    /\ vehicleForm = VehicleForm_constructor
    /\ maintenanceForm = MaintenanceForm_constructor
    /\ editing = NoCurrentId
    /\ app = Application_constructor

\* the state after a call that left the instances v and x
ApplyModels(v, x) ==
    /\ vehicleInstance' = v
    /\ recordInstance' = x
    /\ UNCHANGED <<storageAvailable, ls, vehiclesCache, maintenanceRecordsCache,
                   lastVehiclesCacheTime, lastMaintenanceCacheTime, now,
                   held, vehicleForm, maintenanceForm, editing, app>>

NewVehicle ==
    \E d \in VehicleData, g \in GeneratedVehicleIds :
        ApplyModels(Vehicle_new(d, now, g), recordInstance)

NewRecord ==
    \E d \in RecordData, g \in GeneratedRecordIds :
        ApplyModels(vehicleInstance, MaintenanceRecord_new(d, now, g))

VehicleUpdate ==
    \E u \in VehiclePartials : ApplyModels(Vehicle_update(vehicleInstance, u, now).x, recordInstance)

RecordUpdate ==
    \E u \in RecordPartials : ApplyModels(vehicleInstance, MaintenanceRecord_update(recordInstance, u, now).x)

\* vehicle = Vehicle.fromJSON(vehicle.toJSON())
VehicleRoundTrip ==
    \E g \in GeneratedVehicleIds :
        ApplyModels(Vehicle_fromJSON(Vehicle_toJSON(vehicleInstance, now), now, g).r, recordInstance)

\* record = MaintenanceRecord.fromJSON(record.toJSON())
RecordRoundTrip ==
    \E g \in GeneratedRecordIds :
        ApplyModels(vehicleInstance,
                    MaintenanceRecord_fromJSON(MaintenanceRecord_toJSON(recordInstance, now), now, g).r)

\* time passes between two calls
TickModels ==
    /\ \E t \in ModelTimes : t > now /\ now' = t
    /\ UNCHANGED <<storageAvailable, ls, vehiclesCache, maintenanceRecordsCache,
                   lastVehiclesCacheTime, lastMaintenanceCacheTime, vehicleInstance, recordInstance,
                   held, vehicleForm, maintenanceForm, editing, app>>

NextModels ==
    \/ NewVehicle
    \/ NewRecord
    \/ VehicleUpdate
    \/ RecordUpdate
    \/ VehicleRoundTrip
    \/ RecordRoundTrip
    \/ TickModels

SpecModels == InitModels /\ [][NextModels]_vars

\* ------------------------------------------------------------ the forms
\* the ids Vehicle.generateId() and MaintenanceRecord.generateId() can give
FormVehicleIds == {"v1"}
FormRecordIds == {"m1"}

\* what the user typed into the vehicle form: a make with a leading blank
\* or of one character, years around both bounds, a year with decimals,
\* and empty year and mileage fields
VehicleFormFields ==
    {[make |-> Str(m), model |-> Str(Ka), year |-> Str(y), mileage |-> Str(mi)] :
        m \in {<<" ">> \o Ford, <<"F">>},
        y \in {Numeral(minYear - 1), Numeral(minYear), Numeral(BaseYear + 1),
               Numeral(BaseYear + 2), Numeral(minYear) \o <<".", "5">>, <<>>},
        mi \in {Numeral(1000), <<>>}}

\* what the user entered into the maintenance form: the date of 31 December
\* or of 1 January, and costs around both bounds, with three decimals and
\* left empty
MaintenanceFormFields ==
    {[date |-> d, serviceType |-> Str(Oil), description |-> EmptyStr, cost |-> Str(c)] :
        d \in {DateStr(Instant(0, 0)), DateStr(Instant(1, 0))},
        c \in {<<"-", "1">>, Numeral(1000000) \o <<".", "0", "1">>,
               Numeral(999999) \o <<".", "9", "9">>, <<"1", "0", ".", "0", "0", "5">>,
               <<"1", "0">>, <<>>}}

\* outcome of the localStorage.setItem made for a submitted form
FormWriteEnvs == {"ok", "error"}

\* the ids the generator can give when the form adds: one that is not in
\* the persisted collection
FormGeneratedIds(currentId, ids, stored) ==
    IF currentId = NoCurrentId THEN FreshIds(ids, stored) ELSE {Undefined}

\* the user submits the vehicle form, to add a vehicle or to save the one
\* loaded for editing
SubmitVehicleForm ==
    \E fields \in VehicleFormFields, currentVehicleId \in {NoCurrentId} \cup FormVehicleIds,
       env \in FormWriteEnvs, order \in KeyOrders :
      \E genId \in FormGeneratedIds(currentVehicleId, FormVehicleIds, StoredVehicles) :
        Apply(VehicleForm_handleSubmit(World, fields, currentVehicleId, now, genId,
                                       env, order).w)

\* the user submits the maintenance form for the selected vehicle, to add a
\* record or to save the one loaded for editing
SubmitMaintenanceForm ==
    \E fields \in MaintenanceFormFields, currentVehicleId \in {NoCurrentId} \cup FormVehicleIds,
       currentRecordId \in {NoCurrentId} \cup FormRecordIds,
       env \in FormWriteEnvs, order \in KeyOrders :
      \E genId \in FormGeneratedIds(currentRecordId, FormRecordIds, StoredRecords) :
        Apply(MaintenanceForm_handleSubmit(World, fields, currentVehicleId, currentRecordId,
                                           now, genId, env, order).w)

\* the moments at which the forms are submitted: page load on 31 December
\* of BaseYear and the next day
FormTimes == {StartTime, MsPerDay + StartTime}

\* time passes between two submissions
TickForms ==
    /\ \E t \in FormTimes : t > now /\ now' = t
    /\ UNCHANGED <<storageAvailable, ls, vehiclesCache, maintenanceRecordsCache,
                   lastVehiclesCacheTime, lastMaintenanceCacheTime,
                   vehicleInstance, recordInstance,
                   held, vehicleForm, maintenanceForm, editing, app>>

NextForms ==
    \/ SubmitVehicleForm
    \/ SubmitMaintenanceForm
    \/ TickForms

SpecForms == Init /\ [][NextForms]_vars

\* ------------------------------------------------------------ outcomes
\* the sequence a collection key holds as the manager reads it
StoredSeq(store, key) ==
    LET v == Stored(store, key) IN IF IsArray(v) THEN v.a ELSE <<>>
\* the ids of the objects of a sequence
IdsOf(seq) == {Field(seq[i], "id") : i \in 1..Len(seq)}
\* the elements of a sequence
Elems(seq) == {seq[i] : i \in 1..Len(seq)}

\* every outcome the operation can have in the current state
AddVehicleOutcomes ==
    UNION {{addVehicle(World, d, now, g, e, ord) :
                g \in GeneratedIds(d, GeneratedVehicleIds, StoredVehicles),
                e \in WriteEnvs, ord \in KeyOrders} : d \in VehicleInputs}
UpdateVehicleOutcomes ==
    {updateVehicle(World, i, u, now, e, ord) :
        i \in VehicleIds, u \in VehicleUpdates, e \in WriteEnvs, ord \in KeyOrders}
DeleteVehicleOutcomes ==
    {deleteVehicle(World, i, now, e, e2, ord) :
        i \in VehicleIds, e \in WriteEnvs, e2 \in WriteEnvs, ord \in KeyOrders}
AddRecordOutcomes ==
    UNION {{addMaintenanceRecord(World, d, now, g, e, ord) :
                g \in GeneratedIds(d, GeneratedRecordIds, StoredRecords),
                e \in WriteEnvs, ord \in KeyOrders} : d \in RecordInputs}
UpdateRecordOutcomes ==
    {updateMaintenanceRecord(World, i, u, now, e, ord) :
        i \in RecordIds, u \in RecordUpdates, e \in WriteEnvs, ord \in KeyOrders}
DeleteRecordOutcomes ==
    {deleteMaintenanceRecord(World, i, now, e, ord) :
        i \in RecordIds, e \in WriteEnvs, ord \in KeyOrders}
CascadeOutcomes ==
    {deleteMaintenanceRecordsByVehicleId(World, i, now, e, ord) :
        i \in VehicleIds, e \in WriteEnvs, ord \in KeyOrders}
ImportOutcomes ==
    {importAllData(World, d, c, e, ord) :
        d \in ImportInputs, c \in BOOLEAN, e \in ImportEnvs, ord \in KeyOrders}
ClearOutcomes ==
    {clearAllData(World, e, ord) : e \in [1..2 -> WriteEnvs], ord \in KeyOrders}

\* a read through the cache right after the operation returns what is
\* persisted
VehiclesReadIsPersisted(o) ==
    getAllVehicles(o.w, TRUE, now).r = StoredSeq(o.w.ls, STORAGE_KEYS.VEHICLES)
RecordsReadIsPersisted(o) ==
    getAllMaintenanceRecords(o.w, TRUE, now).r
        = StoredSeq(o.w.ls, STORAGE_KEYS.MAINTENANCE_RECORDS)

\* ------------------------------------------------------------------ C1
\* C1: every successful mutating operation on a collection (add, update,
\* delete, cascade delete, importAllData, clearAllData) leaves that
\* collection's cache empty, so that getAllVehicles(true) /
\* getAllMaintenanceRecords(true) called next, inside the freshness window,
\* returns the persisted collection, which includes the added or updated
\* record and lacks the deleted one.
C1_MutationInvalidatesCache ==
    /\ \A o \in AddVehicleOutcomes \cup UpdateVehicleOutcomes : o.r.success =>
          /\ o.w.vehiclesCache = JsNull
          /\ VehiclesReadIsPersisted(o)
          /\ o.r.data \in Elems(getAllVehicles(o.w, TRUE, now).r)
    /\ \A i \in VehicleIds, e \in WriteEnvs, e2 \in WriteEnvs, ord \in KeyOrders :
          LET o == deleteVehicle(World, i, now, e, e2, ord)
          IN o.r.success =>
               /\ o.w.vehiclesCache = JsNull
               /\ VehiclesReadIsPersisted(o)
               /\ i \notin IdsOf(getAllVehicles(o.w, TRUE, now).r)
    /\ \A o \in AddRecordOutcomes \cup UpdateRecordOutcomes : o.r.success =>
          /\ o.w.maintenanceRecordsCache = JsNull
          /\ RecordsReadIsPersisted(o)
          /\ o.r.data \in Elems(getAllMaintenanceRecords(o.w, TRUE, now).r)
    /\ \A i \in RecordIds, e \in WriteEnvs, ord \in KeyOrders :
          LET o == deleteMaintenanceRecord(World, i, now, e, ord)
          IN o.r.success =>
               /\ o.w.maintenanceRecordsCache = JsNull
               /\ RecordsReadIsPersisted(o)
               /\ i \notin IdsOf(getAllMaintenanceRecords(o.w, TRUE, now).r)
    /\ \A o \in CascadeOutcomes : o.r.success =>
          /\ o.w.maintenanceRecordsCache = JsNull
          /\ RecordsReadIsPersisted(o)
    /\ \A o \in ImportOutcomes \cup ClearOutcomes : o.r.success =>
          /\ o.w.vehiclesCache = JsNull
          /\ o.w.maintenanceRecordsCache = JsNull
          /\ VehiclesReadIsPersisted(o)
          /\ RecordsReadIsPersisted(o)

\* C1 witness: both caches were filled in the current freshness window, the
\* vehicles cache holds a vehicle, and an addVehicle that succeeds is possible
C1_Witness ==
    /\ IsArray(vehiclesCache) /\ Len(vehiclesCache.a) = 1
    /\ IsArray(maintenanceRecordsCache)
    /\ now - lastVehiclesCacheTime < cacheExpiry
    /\ \E o \in AddVehicleOutcomes : o.r.success

\* ------------------------------------------------------------------ C2
\* what getAllVehicles / getAllMaintenanceRecords must do according to C2,
\* given the cache, its fill time and the outcome o of the call: serve the
\* cache untouched exactly when useCache holds, a cache exists and less than
\* five minutes have passed; otherwise read the store and refresh cache and
\* timestamp
C2_Holds(useCache, cache, cacheTime, stored, o, oCache, oTime) ==
    LET serve == useCache /\ cache # JsNull /\ now - cacheTime < 5 * 60 * 1000
    IN /\ serve <=> ~o.read
       /\ serve => o.w = World /\ o.r = cache.a
       /\ ~serve => /\ oCache = stored
                    /\ oTime = now
                    /\ o.r = stored.a

\* C2: getAllVehicles(useCache) / getAllMaintenanceRecords(useCache) return
\* the cached copy without reading the store if and only if useCache is
\* true, a cached copy exists and strictly less than 5 minutes have passed
\* since it was filled; otherwise they re-read the store and refresh the
\* cache and its timestamp.
C2_CacheServedOnlyWhenFresh ==
    \A useCache \in BOOLEAN :
        /\ LET o == getAllVehicles(World, useCache, now)
           IN C2_Holds(useCache, vehiclesCache, lastVehiclesCacheTime, StoredVehicles,
                       o, o.w.vehiclesCache, o.w.lastVehiclesCacheTime)
        /\ LET o == getAllMaintenanceRecords(World, useCache, now)
           IN C2_Holds(useCache, maintenanceRecordsCache, lastMaintenanceCacheTime,
                       StoredRecords, o, o.w.maintenanceRecordsCache,
                       o.w.lastMaintenanceCacheTime)

\* C2 witness: the vehicles cache is one millisecond short of five minutes
\* old and differs from the store, the maintenance cache is filled and was
\* refreshed later
C2_Witness ==
    /\ vehiclesCache # JsNull
    /\ now - lastVehiclesCacheTime = 5 * 60 * 1000 - 1
    /\ vehiclesCache # StoredVehicles
    /\ maintenanceRecordsCache # JsNull
    /\ now = lastMaintenanceCacheTime

\* C2 witness of the other side: a filled cache exactly five minutes old
C2_WitnessExpired ==
    /\ vehiclesCache # JsNull
    /\ now - lastVehiclesCacheTime = 5 * 60 * 1000

\* ------------------------------------------------------------------ C3
\* C3: a non-null cache that is still inside the freshness window holds
\* exactly the content persisted in the store for its collection.
C3_CacheEqualsStore ==
    /\ (vehiclesCache # JsNull /\ now - lastVehiclesCacheTime < 5 * 60 * 1000)
          => vehiclesCache = StoredVehicles
    /\ (maintenanceRecordsCache # JsNull /\ now - lastMaintenanceCacheTime < 5 * 60 * 1000)
          => maintenanceRecordsCache = StoredRecords

\* ------------------------------------------------------------------ C4
\* the ids of a sequence are pairwise distinct
DistinctIds(seq) ==
    \A i, j \in 1..Len(seq) : i # j => Field(seq[i], "id") # Field(seq[j], "id")

\* C4: addVehicle / addMaintenanceRecord with an explicit id that exists in
\* the persisted collection returns success:false and leaves the store as it
\* was; the ids within each persisted collection are pairwise distinct.
C4_DuplicateIdRejected ==
    /\ \A d \in VehicleInputs, e \in WriteEnvs, ord \in KeyOrders :
          ("id" \in DOMAIN d
              /\ d.id \in IdsOf(StoredSeq(ls, STORAGE_KEYS.VEHICLES)))
          => LET o == addVehicle(World, d, now, Undefined, e, ord)
             IN ~o.r.success /\ o.w.ls = ls
    /\ \A d \in RecordInputs, e \in WriteEnvs, ord \in KeyOrders :
          ("id" \in DOMAIN d
              /\ d.id \in IdsOf(StoredSeq(ls, STORAGE_KEYS.MAINTENANCE_RECORDS)))
          => LET o == addMaintenanceRecord(World, d, now, Undefined, e, ord)
             IN ~o.r.success /\ o.w.ls = ls
    /\ DistinctIds(StoredSeq(ls, STORAGE_KEYS.VEHICLES))
    /\ DistinctIds(StoredSeq(ls, STORAGE_KEYS.MAINTENANCE_RECORDS))

\* C4 witness: both collections hold two records, among them the records
\* whose ids callers supply
C4_Witness ==
    /\ IdsOf(StoredSeq(ls, STORAGE_KEYS.VEHICLES)) = {"v1", "v2"}
    /\ IdsOf(StoredSeq(ls, STORAGE_KEYS.MAINTENANCE_RECORDS)) = {"m1", "m2"}

\* ------------------------------------------------------------------ C5
\* C5: addMaintenanceRecord with a non-empty vehicleId returns success only
\* if a vehicle with that id is in the persisted vehicles collection at the
\* time of the call; otherwise it fails and the maintenance collection is
\* unchanged.
C5_RecordNeedsPersistedVehicle ==
    \A d \in RecordInputs, e \in WriteEnvs, ord \in KeyOrders :
        FieldTruthy(d, "vehicleId") =>
            LET o == addMaintenanceRecord(World, d, now, Undefined, e, ord)
                persisted == d.vehicleId \in IdsOf(StoredSeq(ls, STORAGE_KEYS.VEHICLES))
            IN /\ o.r.success => persisted
               /\ ~persisted =>
                    /\ ~o.r.success
                    /\ StoredSeq(o.w.ls, STORAGE_KEYS.MAINTENANCE_RECORDS)
                         = StoredSeq(ls, STORAGE_KEYS.MAINTENANCE_RECORDS)

\* ------------------------------------------------------------------ C6
\* C6: after a successful deleteVehicle(id) the persisted vehicles hold no
\* vehicle with that id, the persisted maintenance records hold no record
\* of that vehicle, and getMaintenanceRecordsByVehicleId(id) returns an
\* empty sequence.
C6_DeleteVehicleCascades ==
    \A i \in VehicleIds, e \in WriteEnvs, e2 \in WriteEnvs, ord \in KeyOrders :
        LET o == deleteVehicle(World, i, now, e, e2, ord)
            records == StoredSeq(o.w.ls, STORAGE_KEYS.MAINTENANCE_RECORDS)
        IN o.r.success =>
             /\ i \notin IdsOf(StoredSeq(o.w.ls, STORAGE_KEYS.VEHICLES))
             /\ \A k \in 1..Len(records) : Field(records[k], "vehicleId") # i
             /\ getMaintenanceRecordsByVehicleId(o.w, i, now).r = <<>>

\* ------------------------------------------------------------------ C7
\* the fields an update never takes from the partial fields
Stamped == {"id", "createdAt", "updatedAt"}

\* what C7 asks of the record `data` produced from `old` by `updates`
C7_Merged(old, updates, data) ==
    /\ data.id = old.id
    /\ data.createdAt = old.createdAt
    /\ data.updatedAt = toISOString(now)
    /\ DOMAIN data = DOMAIN old \cup DOMAIN updates
    /\ \A f \in DOMAIN updates \ Stamped : data[f] = updates[f]
    /\ \A f \in DOMAIN old \ (DOMAIN updates \cup Stamped) : data[f] = old[f]

\* C7: updateVehicle / updateMaintenanceRecord(id, partial) on an existing
\* record produces (and persists in place) a record whose id and createdAt
\* are those of the record before the call, whatever the partial supplies
\* for them; every other field of the partial takes the partial's value,
\* every field absent from it keeps its old value, and updatedAt is the
\* current time.
C7_UpdatePreservesIdentity ==
    /\ \A i \in VehicleIds, u \in VehicleUpdates, e \in WriteEnvs, ord \in KeyOrders :
          LET before == StoredSeq(ls, STORAGE_KEYS.VEHICLES)
              k == FirstIndex(before, "id", i)
              o == updateVehicle(World, i, u, now, e, ord)
          IN (k # 0 /\ o.r.success) =>
               /\ C7_Merged(before[k], u, o.r.data)
               /\ StoredSeq(o.w.ls, STORAGE_KEYS.VEHICLES)[k] = o.r.data
    /\ \A i \in RecordIds, u \in RecordUpdates, e \in WriteEnvs, ord \in KeyOrders :
          LET before == StoredSeq(ls, STORAGE_KEYS.MAINTENANCE_RECORDS)
              k == FirstIndex(before, "id", i)
              o == updateMaintenanceRecord(World, i, u, now, e, ord)
          IN (k # 0 /\ o.r.success) =>
               /\ C7_Merged(before[k], u, o.r.data)
               /\ StoredSeq(o.w.ls, STORAGE_KEYS.MAINTENANCE_RECORDS)[k] = o.r.data

\* C7 witness: an update has acted on vehicle v1 and on record m1: each
\* carries the updated data field, its own id and the createdAt it was added
\* with, not those of the partial fields
C7_Witness ==
    /\ \E v \in Elems(StoredSeq(ls, STORAGE_KEYS.VEHICLES)) :
          v.id = "v1" /\ v.make = "B" /\ v.createdAt = SuppliedTime
             /\ v.updatedAt = toISOString(now)
    /\ \E r \in Elems(StoredSeq(ls, STORAGE_KEYS.MAINTENANCE_RECORDS)) :
          r.id = "m1" /\ r.serviceType = "tyres" /\ r.createdAt = SuppliedTime
             /\ r.updatedAt = toISOString(now)

\* ------------------------------------------------------------------ C8
\* the operation failed and left localStorage as it was
Rejected(o) == ~o.r.success /\ o.r.reason # "ok" /\ o.w.ls = ls

\* C8: an operation rejected for an input-shape error (non-object data,
\* missing or non-string id), a not-found id (update, delete), a duplicate
\* id (add) or a missing referenced vehicle (addMaintenanceRecord) returns
\* success:false with a message and leaves both persisted collections as
\* they were.
C8_RejectionLeavesStore ==
    LET vIds == IdsOf(StoredSeq(ls, STORAGE_KEYS.VEHICLES))
        rIds == IdsOf(StoredSeq(ls, STORAGE_KEYS.MAINTENANCE_RECORDS))
    IN
    /\ \A e \in WriteEnvs, ord \in KeyOrders :
          /\ Rejected(addVehicle(World, NotAnObject, now, Undefined, e, ord))
          /\ Rejected(addMaintenanceRecord(World, NotAnObject, now, Undefined, e, ord))
          /\ \A i \in VehicleIds \cup BadIds :
                /\ Rejected(updateVehicle(World, i, NotAnObject, now, e, ord))
                /\ \A u \in VehicleUpdates, e2 \in WriteEnvs :
                      i \notin vIds =>
                         /\ Rejected(updateVehicle(World, i, u, now, e, ord))
                         /\ Rejected(deleteVehicle(World, i, now, e, e2, ord))
          /\ \A i \in RecordIds \cup BadIds :
                /\ Rejected(updateMaintenanceRecord(World, i, NotAnObject, now, e, ord))
                /\ \A u \in RecordUpdates :
                      i \notin rIds =>
                         /\ Rejected(updateMaintenanceRecord(World, i, u, now, e, ord))
                         /\ Rejected(deleteMaintenanceRecord(World, i, now, e, ord))
          /\ \A i \in BadIds :
                Rejected(deleteMaintenanceRecordsByVehicleId(World, i, now, e, ord))
          /\ \A d \in VehicleInputs :
                ("id" \in DOMAIN d /\ d.id \in vIds)
                    => Rejected(addVehicle(World, d, now, Undefined, e, ord))
          /\ \A d \in RecordInputs :
                ("id" \in DOMAIN d /\ d.id \in rIds)
                    => Rejected(addMaintenanceRecord(World, d, now, Undefined, e, ord))
    /\ \A c \in BOOLEAN, e \in ImportEnvs, ord \in KeyOrders :
          Rejected(importAllData(World, NotAnObject, c, e, ord))
    /\ \A o \in AddRecordOutcomes : o.r.reason = "novehicle" => Rejected(o)

\* C8 witness: vehicle v1 and record m1 are persisted (a second add of
\* either is a duplicate), v2 is not (an update or delete of it finds
\* nothing) and some addMaintenanceRecord is refused for its vehicle
C8_Witness ==
    /\ IdsOf(StoredSeq(ls, STORAGE_KEYS.VEHICLES)) = {"v1"}
    /\ IdsOf(StoredSeq(ls, STORAGE_KEYS.MAINTENANCE_RECORDS)) = {"m1"}
    /\ vehiclesCache = JsNull
    /\ \E o \in UpdateVehicleOutcomes : o.r.reason = "notfound"
    /\ \E o \in AddVehicleOutcomes : o.r.reason = "duplicate"

\* C8 witness of the missing vehicle: an addMaintenanceRecord is refused
\* because its vehicle does not exist
C8_WitnessNoVehicle ==
    \E o \in AddRecordOutcomes : o.r.reason = "novehicle"

\* ------------------------------------------------------------------ C9
\* C9: an operation that depends on a store write returns success:false
\* whenever one of its store writes fails; clearAllData reports success only
\* if both persisted collections are empty afterwards.
C9_WriteFailurePropagates ==
    /\ \A o \in AddVehicleOutcomes \cup UpdateVehicleOutcomes \cup DeleteVehicleOutcomes
                \cup AddRecordOutcomes \cup UpdateRecordOutcomes \cup DeleteRecordOutcomes
                \cup CascadeOutcomes \cup ImportOutcomes \cup ClearOutcomes :
          o.wf => ~o.r.success
    /\ \A o \in ClearOutcomes : o.r.success =>
          /\ StoredSeq(o.w.ls, STORAGE_KEYS.VEHICLES) = <<>>
          /\ StoredSeq(o.w.ls, STORAGE_KEYS.MAINTENANCE_RECORDS) = <<>>

\* ------------------------------------------------------------------ C10
\* a read let no exception escape, and after a caught one it returned its
\* neutral value
ReadSafe(o, neutral) == o.exc # "escaped" /\ (o.exc = "caught" => o.r = neutral)
\* a mutating operation let no exception escape and reports every failure
\* as success:false with a message
MutationSafe(o) ==
    /\ o.exc # "escaped"
    /\ o.r.success \in BOOLEAN
    /\ o.exc = "caught" => ~o.r.success
    /\ ~o.r.success =>
         o.r.reason \in {"shape", "caught", "duplicate", "notfound", "novehicle", "write"}

\* C10: no public DataManager operation (getAll, getById, getByVehicleId,
\* add, update, delete, search, export, import, clear) lets an exception
\* escape, whatever its arguments (objects, non-objects, bad ids) and whatever
\* the collection keys hold (a non-array value, null elements, records
\* without string fields); a failure is returned as success:false with a
\* message by the mutating operations and as an empty sequence or null by the
\* reads.
C10_NoExceptionEscapes ==
    /\ \A u \in BOOLEAN :
          /\ ReadSafe(getAllVehicles(World, u, now), <<>>)
          /\ ReadSafe(getAllMaintenanceRecords(World, u, now), <<>>)
    /\ \A i \in VehicleIds \cup BadIds :
          /\ ReadSafe(getVehicleById(World, i, now), NullElem)
          /\ ReadSafe(getMaintenanceRecordsByVehicleId(World, i, now), <<>>)
    /\ \A i \in RecordIds \cup BadIds :
          ReadSafe(getMaintenanceRecordById(World, i, now), NullElem)
    /\ \A c \in VehicleCriteria \cup {NotAnObject} :
          ReadSafe(searchVehicles(World, c, now), <<>>)
    /\ \A c \in RecordCriteria \cup {NotAnObject} :
          ReadSafe(searchMaintenanceRecords(World, c, now), <<>>)
    /\ exportAllData(World, now).exc # "escaped"
    /\ \A e \in WriteEnvs, ord \in KeyOrders :
          /\ \A d \in VehicleInputs \cup {NotAnObject} :
                \A g \in GeneratedIds(d, GeneratedVehicleIds, StoredVehicles) :
                    MutationSafe(addVehicle(World, d, now, g, e, ord))
          /\ \A d \in RecordInputs \cup {NotAnObject} :
                \A g \in GeneratedIds(d, GeneratedRecordIds, StoredRecords) :
                    MutationSafe(addMaintenanceRecord(World, d, now, g, e, ord))
          /\ \A i \in VehicleIds \cup BadIds :
                /\ \A u \in VehicleUpdates \cup {NotAnObject} :
                      MutationSafe(updateVehicle(World, i, u, now, e, ord))
                /\ \A e2 \in WriteEnvs :
                      MutationSafe(deleteVehicle(World, i, now, e, e2, ord))
                /\ MutationSafe(deleteMaintenanceRecordsByVehicleId(World, i, now, e, ord))
          /\ \A i \in RecordIds \cup BadIds :
                /\ \A u \in RecordUpdates \cup {NotAnObject} :
                      MutationSafe(updateMaintenanceRecord(World, i, u, now, e, ord))
                /\ MutationSafe(deleteMaintenanceRecord(World, i, now, e, ord))
    /\ \A d \in ImportInputs \cup {NotAnObject}, c \in BOOLEAN, e \in ImportEnvs,
          ord \in KeyOrders :
          MutationSafe(importAllData(World, d, c, e, ord))
    /\ \A o \in ClearOutcomes : MutationSafe(o)

\* C10 witness: the vehicles key holds a number that a read has put in the
\* cache (spreading it raises TypeError), the records key holds an array with
\* a null element, and a cached read, a search and a delete each catch an
\* exception
C10_Witness ==
    /\ StoredVehicles = JsNumber
    /\ vehiclesCache = JsNumber
    /\ now - lastVehiclesCacheTime < cacheExpiry
    /\ IsArray(StoredRecords)
    /\ \E k \in 1..Len(StoredRecords.a) : StoredRecords.a[k] = NullElem
    /\ getAllVehicles(World, TRUE, now).exc = "caught"
    /\ \E c \in RecordCriteria : searchMaintenanceRecords(World, c, now).exc = "caught"
    /\ \E i \in RecordIds, ord \in KeyOrders :
          deleteMaintenanceRecord(World, i, now, "ok", ord).exc = "caught"


\* --------------------------------------------------- StorageService.set
\* the outcomes of localStorage.setItem that raise QuotaExceededError
QuotaEnvs == StorageWriteEnvs \ {"ok", "error"}
\* the removeItem calls of a set, and the setItem calls after its first
Removals(o) == SelectSeq(o.calls, LAMBDA c : c.op = "removeItem")
Retries(o) == Len(SelectSeq(o.calls, LAMBDA c : c.op = "setItem")) - 1
\* the keys that held an item before the call and hold none after it
Evicted(store, o) == {k \in DOMAIN store : store[k] # Absent /\ o.ls[k] = Absent}
\* at most one key is removed, and never the key written or the version key
EvictsAtMostOne(store, key, o) ==
    /\ Len(Removals(o)) <= 1
    /\ \A i \in 1..Len(Removals(o)) : Removals(o)[i].key \notin {key, versionKey}
    /\ Cardinality(Evicted(store, o)) <= 1
    /\ Evicted(store, o) \cap {key, versionKey} = {}

\* C11 as stated: whenever the write of a set hits the capacity-exceeded
\* condition, at most one existing key is removed, never the key written or
\* the version key, and the write is retried exactly once.
C11_RetriesExactlyOnce ==
    storageAvailable =>
        \A key \in StorageKeys, value \in StorageValues \ {JsCircular},
           env \in QuotaEnvs, order \in StorageKeyOrders :
            LET o == StorageService_set(ls, key, value, env, order)
            IN EvictsAtMostOne(ls, key, o) /\ Retries(o) = 1

\* C11 amended: whenever the write of a set hits the capacity-exceeded
\* condition, at most one existing key is removed, never the key written or
\* the version key; the write is retried exactly once when a key was removed
\* and not at all when no key was removed (nothing besides the key written
\* and the version key is stored, or the removal failed).
C11_EvictsOneRetriesOnce ==
    storageAvailable =>
        \A key \in StorageKeys, value \in StorageValues \ {JsCircular},
           env \in QuotaEnvs, order \in StorageKeyOrders :
            LET o == StorageService_set(ls, key, value, env, order)
                removed == \E i \in 1..Len(o.calls) :
                               o.calls[i].op = "removeItem" /\ o.calls[i].ok
            IN /\ EvictsAtMostOne(ls, key, o)
               /\ Retries(o) = IF removed THEN 1 ELSE 0
               /\ removed <=> Evicted(ls, o) # {}

\* a store with a version and two other keys, where a set on a third key that
\* hits the capacity-exceeded condition removes a different key under each
\* enumeration order and retries
C11_Witness ==
    /\ storageAvailable
    /\ ls[versionKey] # Absent
    /\ ls[STORAGE_KEYS.MAINTENANCE_RECORDS] # Absent
    /\ ls[STORAGE_KEYS.LAST_BACKUP] # Absent
    /\ \A order \in StorageKeyOrders :
          LET o == StorageService_set(ls, STORAGE_KEYS.VEHICLES, JsNumber,
                                      "quotaRetryFail", order)
          IN Cardinality(Evicted(ls, o)) = 1 /\ Retries(o) = 1
    /\ Cardinality({Evicted(ls, StorageService_set(ls, STORAGE_KEYS.VEHICLES, JsNumber,
                                                   "quotaRetryFail", order)) :
                        order \in StorageKeyOrders}) = 2

\* a setItem of the call stored the value
ValueStored(o) == \E i \in 1..Len(o.calls) : o.calls[i].op = "setItem" /\ o.calls[i].ok

\* C12: the boolean returned by set tells whether the value was stored: true
\* when a write of the call succeeded, the retry after an eviction included,
\* and false only when no write of the call succeeded.
C12_ReturnTellsStored ==
    \A key \in StorageKeys \cup BadIds, value \in StorageValues,
       env \in StorageWriteEnvs, order \in StorageKeyOrders :
        LET o == StorageService_set(ls, key, value, env, order)
        IN o.r <=> ValueStored(o)

\* ------------------------------------ StorageService: no exception escapes
\* default values handed to get
GetDefaults == {JsNull, EmptyArray}
\* the set made for entry i of an import fails
EntryFails(data, envs, i) ==
    \/ InvalidKey(data.entries[i].key)
    \/ StringifyThrows(data.entries[i].value)
    \/ envs[i] # "ok"

NoEscape_constructor ==
    \A c \in ReadEnvs, i \in InitEnvs :
        LET o == StorageService_constructor(ls, c, i)
        IN /\ o.exc # "escaped"
           /\ c = "throws" => ~o.available /\ o.ls = ls
NoEscape_get ==
    \A key \in StorageKeys \cup BadIds, d \in GetDefaults, env \in ReadEnvs :
        LET o == StorageService_getOutcome(ls, key, d, env)
        IN /\ o.exc # "escaped"
           /\ (~storageAvailable \/ InvalidKey(key) \/ env = "throws") => o.r = d
NoEscape_set ==
    \A key \in StorageKeys \cup BadIds, value \in StorageValues,
       env \in StorageWriteEnvs, order \in StorageKeyOrders :
        LET o == StorageService_set(ls, key, value, env, order)
        IN /\ o.exc # "escaped"
           /\ (~storageAvailable \/ InvalidKey(key) \/ StringifyThrows(value) \/ env # "ok")
                 => ~o.r
NoEscape_remove ==
    \A key \in StorageKeys \cup BadIds, env \in ReadEnvs :
        LET o == StorageService_remove(ls, key, env)
        IN /\ o.exc # "escaped"
           /\ (~storageAvailable \/ InvalidKey(key) \/ env = "throws") => ~o.r
NoEscape_has ==
    \A key \in StorageKeys \cup BadIds, env \in ReadEnvs :
        LET o == StorageService_has(ls, key, env)
        IN /\ o.exc # "escaped"
           /\ (~storageAvailable \/ InvalidKey(key) \/ env = "throws") => ~o.r
NoEscape_clear ==
    \A includeVersion \in BOOLEAN, env \in ClearEnvs :
        LET o == StorageService_clear(ls, includeVersion, env)
            thrown == IF includeVersion THEN env = "clearThrows"
                      ELSE \/ env \in {"getThrows", "clearThrows"}
                           \/ env = "setThrows" /\ ls[versionKey] # Absent
        IN /\ o.exc # "escaped"
           /\ (~storageAvailable \/ thrown) => ~o.r
NoEscape_getAllKeys ==
    \A includeVersion \in BOOLEAN, env \in ReadEnvs, order \in StorageKeyOrders :
        LET o == StorageService_getAllKeys(ls, includeVersion, env, order)
        IN /\ o.exc # "escaped"
           /\ (~storageAvailable \/ env = "throws") => o.r = <<>>
\* exportAll: when the keys cannot be enumerated the object is empty; when
\* only getItem throws, get absorbs it and every key maps to null
NoEscape_exportAll ==
    \A keysEnv \in ReadEnvs, readEnv \in ReadEnvs, order \in StorageKeyOrders :
        LET o == StorageService_exportAll(ls, keysEnv, readEnv, order)
        IN /\ o.exc # "escaped"
           /\ (~storageAvailable \/ keysEnv = "throws") => o.r = EmptyObject
           /\ (storageAvailable /\ keysEnv = "ok" /\ readEnv = "throws")
                 => \A k \in DOMAIN o.r : o.r[k] = JsNull
NoEscape_importAll ==
    \A data \in StorageImports \cup {NotAnObject}, clearFirst \in BOOLEAN,
       clearEnv \in ClearEnvs, envs \in [1..2 -> StorageWriteEnvs],
       order \in StorageKeyOrders :
        LET o == StorageService_importAll(ls, data, clearFirst, clearEnv, envs, order)
        IN /\ o.exc # "escaped"
           /\ (\/ ~storageAvailable
               \/ ~IsObject(data)
               \/ \E i \in 1..Len(data.entries) : EntryFails(data, envs, i)) => ~o.r

RoundTripJson == JsonValues \cup {JsNull, EmptyArray, JsArray(<<JsNumber, JsText("hello")>>)}
\* values handed to set, with an array that holds undefined among them
RoundTripValues == RoundTripJson \cup StorageValues \cup {JsArray(<<JsNumber, JsUndefined>>)}
\* get(key) after set(key, value) returned true gives back value
GetAfterSet(values) ==
    \A key \in StorageKeys, value \in values, env \in StorageWriteEnvs,
       order \in StorageKeyOrders, d \in GetDefaults :
        LET o == StorageService_set(ls, key, value, env, order)
        IN o.r => StorageService_getOutcome(o.ls, key, d, "ok") = [r |-> value, exc |-> "none"]
\* get on an item that is not JSON text gives the text of the item
GetOfRaw ==
    \A key \in StorageKeys, d \in GetDefaults :
        (storageAvailable /\ ls[key].t = "raw")
            => StorageService_getOutcome(ls, key, d, "ok") = [r |-> JsText(ls[key].s), exc |-> "none"]

\* C14 as stated: for every key and every value that set accepted, a get of
\* the key that follows returns a value equal to the one stored; a get on an
\* item that is not decodable JSON returns the raw stored string.
C14_GetReturnsWhatSetAccepted ==
    GetAfterSet(RoundTripValues) /\ GetOfRaw

\* C14 amended: for every key and every value that JSON represents (null, a
\* finite number, a string, an array of such values) that set accepted, a get
\* of the key that follows returns a value equal to the one stored; a get on
\* an item that is not decodable JSON returns the raw stored string.
C14_GetReturnsJsonValue ==
    GetAfterSet(RoundTripJson) /\ GetOfRaw

\* a store where set(key, undefined) has left the text "undefined" under one
\* key and a set of a string has left its JSON text under another
C14_Witness ==
    /\ storageAvailable
    /\ ls[STORAGE_KEYS.VEHICLES] = JSON_stringify(JsUndefined)
    /\ ls[STORAGE_KEYS.LAST_BACKUP] = JSON_stringify(JsText("hello"))
    /\ StorageService_getOutcome(ls, STORAGE_KEYS.VEHICLES, JsNull, "ok").r = JsText("undefined")
    /\ StorageService_getOutcome(ls, STORAGE_KEYS.LAST_BACKUP, JsNull, "ok").r = JsText("hello")

\* -------------------------------------------------- models: atomic update
\* update(updates) failed
Failed(o) == ~o.r.success

\* C15: Vehicle.update(partial) and MaintenanceRecord.update(partial) are
\* atomic.  Whenever the call returns success:false (the partial is no
\* object, or the instance with the partial applied fails validate()), every
\* field of the instance, updatedAt included, has the value it had before the
\* call; whenever it returns success:true the instance passes validate().
C15_UpdateIsAtomic ==
    /\ \A u \in VehiclePartials :
          LET o == Vehicle_update(vehicleInstance, u, now)
          IN /\ Failed(o) => o.x = vehicleInstance
             /\ ~Failed(o) => Vehicle_validate(o.x, now).valid
             /\ Failed(o) <=> \/ ~IsObject(u)
                              \/ ~Vehicle_validate(Staged(vehicleInstance, u,
                                                          VehicleDataFields), now).valid
    /\ \A u \in RecordPartials :
          LET o == MaintenanceRecord_update(recordInstance, u, now)
          IN /\ Failed(o) => o.x = recordInstance
             /\ ~Failed(o) => MaintenanceRecord_validate(o.x, now).valid
             /\ Failed(o) <=> \/ ~IsObject(u)
                              \/ ~MaintenanceRecord_validate(
                                      StagedRecord(recordInstance, u), now).valid

\* both instances were changed by an earlier update, and each of them has a
\* partial that is rejected for a field that fails its check after other
\* fields of the partial were staged, and a partial that is accepted
C15_Witness ==
    /\ vehicleInstance.make = Str(<<"B", "M", "W">>)
    /\ recordInstance.serviceType = Str(Tyres)
    /\ vehicleInstance.updatedAt # vehicleInstance.createdAt
    /\ \E u \in VehiclePartials :
          /\ Failed(Vehicle_update(vehicleInstance, u, now))
          /\ "model" \in DOMAIN u
          /\ u.model # vehicleInstance.model
    /\ \E u \in VehiclePartials : ~Failed(Vehicle_update(vehicleInstance, u, now))
    /\ \E u \in RecordPartials :
          /\ Failed(MaintenanceRecord_update(recordInstance, u, now))
          /\ "serviceType" \in DOMAIN u
    /\ \E u \in RecordPartials : ~Failed(MaintenanceRecord_update(recordInstance, u, now))

\* ------------------------------------------------ models: validate()
\* the fields in the order validate() reports them, and the check of each
VehicleFieldOrder == <<"id", "make", "model", "year", "mileage">>
VehicleFieldCheck(v, t) ==
    [id |-> Vehicle_validateId(v), make |-> Vehicle_validateMake(v),
     model |-> Vehicle_validateModel(v), year |-> Vehicle_validateYear(v, t),
     mileage |-> Vehicle_validateMileage(v)]
RecordFieldOrder == <<"id", "vehicleId", "date", "serviceType", "description", "cost">>
RecordFieldCheck(x, t) ==
    [id |-> MaintenanceRecord_validateId(x),
     vehicleId |-> MaintenanceRecord_validateVehicleId(x),
     date |-> MaintenanceRecord_validateDate(x, t),
     serviceType |-> MaintenanceRecord_validateServiceType(x),
     description |-> MaintenanceRecord_validateDescription(x),
     cost |-> MaintenanceRecord_validateCost(x)]
\* the fields whose check fails, in reporting order
FailingFields(order, check) == SelectSeq(order, LAMBDA f : ~check[f].valid)
\* r reports the failing fields, each once and with the result of its check,
\* in the order given, and is valid exactly when there is none
ReportsEachFailure(r, order, check) ==
    LET failing == FailingFields(order, check)
    IN /\ r.valid <=> failing = <<>>
       /\ Len(r.errors) = Len(failing)
       /\ \A k \in 1..Len(failing) :
             /\ r.errors[k].field = failing[k]
             /\ "message" \in DOMAIN r.errors[k]
             /\ r.errors[k] = check[failing[k]]

\* C16: validate() of Vehicle and of MaintenanceRecord checks every field
\* whatever failed before it and returns valid:true exactly when no field
\* check fails; the errors list holds one {field, message} entry for each
\* failing field and none for a passing field, in the order id, make, model,
\* year, mileage (Vehicle) and id, vehicleId, date, serviceType, description,
\* cost (MaintenanceRecord).
C16_ValidateReportsEveryField ==
    /\ ReportsEachFailure(Vehicle_validate(vehicleInstance, now), VehicleFieldOrder,
                          VehicleFieldCheck(vehicleInstance, now))
    /\ ReportsEachFailure(MaintenanceRecord_validate(recordInstance, now),
                          RecordFieldOrder, RecordFieldCheck(recordInstance, now))

\* on both instances a field fails, a later field passes and a field after
\* that fails again
C16_Witness ==
    /\ \E i, j, k \in 1..Len(VehicleFieldOrder) :
          LET c == VehicleFieldCheck(vehicleInstance, now)
          IN /\ i < j /\ j < k
             /\ ~c[VehicleFieldOrder[i]].valid
             /\ c[VehicleFieldOrder[j]].valid
             /\ ~c[VehicleFieldOrder[k]].valid
    /\ \E i, j, k \in 1..Len(RecordFieldOrder) :
          LET c == RecordFieldCheck(recordInstance, now)
          IN /\ i < j /\ j < k
             /\ ~c[RecordFieldOrder[i]].valid
             /\ c[RecordFieldOrder[j]].valid
             /\ ~c[RecordFieldOrder[k]].valid

\* ------------------------------------------- models: toJSON and fromJSON
\* C17: for every valid Vehicle and every valid MaintenanceRecord x,
\* fromJSON(x.toJSON()) is an instance whose every field (id, the data
\* fields, createdAt and updatedAt) equals the field of x, also when the
\* clock has advanced between the last update of x and the toJSON call.
C17_RoundTripPreservesFields ==
    /\ Vehicle_validate(vehicleInstance, now).valid
          => \A g \in GeneratedVehicleIds :
                Vehicle_fromJSON(Vehicle_toJSON(vehicleInstance, now), now, g).r
                    = vehicleInstance
    /\ MaintenanceRecord_validate(recordInstance, now).valid
          => \A g \in GeneratedRecordIds :
                MaintenanceRecord_fromJSON(MaintenanceRecord_toJSON(recordInstance, now),
                                           now, g).r = recordInstance

\* ------------------------------------------------- the date bound policy
\* the policy: the string parses, is not after the end of tomorrow and is
\* not before 100 years before now
DatePolicy(date, t) ==
    /\ NewDate(date) # InvalidDate
    /\ ~DateAfter(NewDate(date), Instant(DateOf(t).day + 1, MsPerDay - 1))
    /\ ~DateBefore(NewDate(date), Instant(DateOf(t).day - DaysIn100Years, DateOf(t).ms))
\* the verdict of MaintenanceRecord.validateDate on a record with this date
ModelDateVerdict(date, t) ==
    MaintenanceRecord_validateDate([recordInstance EXCEPT !.date = date], t).valid

\* C20: the date bound policy is the same wherever a service date is
\* validated.  For every date string and every current time,
\* MaintenanceRecord.validateDate, the standalone validateDate and
\* MaintenanceForm.validateDate give the same verdict: valid exactly when the
\* string parses, is not after tomorrow at 23:59:59 local time and is not
\* before 100 years before now.
C20_DateValidatorsAgree ==
    \A date \in DateInputs :
        /\ ModelDateVerdict(date, now) = DatePolicy(date, now)
        /\ validateDate(date, now).valid = DatePolicy(date, now)
        /\ MaintenanceForm_validateDate(date, now).valid = DatePolicy(date, now)

\* ------------------------------------------------ adding through the forms
\* the objects a call added to a persisted collection
NewlyPersisted(before, after, key) ==
    {e \in Elems(StoredSeq(after, key)) : e \notin Elems(StoredSeq(before, key))}
\* the vehicle form filled in with this year and otherwise valid fields
VehicleFieldsWithYear(year) ==
    [make |-> Str(Ford), model |-> Str(Ka), year |-> Str(Numeral(year)),
     mileage |-> Str(Numeral(1000))]
\* the submit ended with a year-range error and nothing reached the manager
YearRangeError(o) ==
    /\ o.kind = "invalid"
    /\ \E k \in 1..Len(o.errors) :
          /\ o.errors[k].field = "year"
          /\ o.errors[k].message.text \in {"Vehicle year must be or later",
                                           "Vehicle year cannot exceed",
                                           "Vehicle year must be between"}
    /\ o.w = World
\* the year is an integer with 1886 <= year <= currentYear + 1
YearInRange(v, t) ==
    /\ TypeOf(v.year) = "number"
    /\ v.year.f = 0
    /\ 1886 <= v.year.w
    /\ v.year.w <= getFullYear(t) + 1

RecordFieldsWithCost(cost, t) ==
    [date |-> DateStr(Instant(DateOf(t).day, 0)), serviceType |-> Str(Oil),
     description |-> EmptyStr, cost |-> Str(cost)]
\* counted in thousandths, the cost is a whole number of hundredths with
\* 0 <= cost <= 1,000,000
CostAcceptable(x) ==
    /\ TypeOf(x.cost) = "number"
    /\ 0 <= 1000 * x.cost.w + x.cost.f
    /\ 1000 * x.cost.w + x.cost.f <= 1000 * 1000000
    /\ x.cost.f % 10 = 0

\* validate() of a new record with this cost and otherwise valid fields
RecordWithCostValid(cost, t) ==
    \A g \in FormRecordIds :
        MaintenanceRecord_validate(
            MaintenanceRecord_new([vehicleId |-> "v1",
                                   date |-> DateStr(Instant(DateOf(t).day, 0)),
                                   serviceType |-> Str(Oil), cost |-> cost], t, g), t).valid

\* the verdicts and the bound for a record added through the form
FormCostBounds ==
    \A env \in WriteEnvs, order \in KeyOrders, genId \in FormRecordIds,
       currentVehicleId \in FormVehicleIds :
        LET submit(fields) == MaintenanceForm_handleSubmit(World, fields, currentVehicleId,
                                                           NoCurrentId, now, genId, env, order)
            added(o) == NewlyPersisted(ls, o.w.ls, STORAGE_KEYS.MAINTENANCE_RECORDS)
            fails(o) == (o.kind = "invalid" \/ ~o.r.success) /\ added(o) = {}
            most == submit(RecordFieldsWithCost(Numeral(999999) \o <<".", "9", "9">>, now))
        IN /\ fails(submit(RecordFieldsWithCost(<<"-", "1">>, now)))
           /\ fails(submit(RecordFieldsWithCost(Numeral(1000000) \o <<".", "0", "1">>, now)))
           /\ fails(submit(RecordFieldsWithCost(<<"1", "0", ".", "0", "0", "5">>, now)))
           /\ (/\ storageAvailable /\ env = "ok"
               /\ genId \notin IdsOf(StoredSeq(ls, STORAGE_KEYS.MAINTENANCE_RECORDS))
               /\ currentVehicleId \in IdsOf(StoredSeq(ls, STORAGE_KEYS.VEHICLES)))
                 => /\ most.kind = "sent"
                    /\ most.r.success
                    /\ \E e \in added(most) : e.id = genId /\ e.cost = Num(999999, 990)
           /\ \A fields \in MaintenanceFormFields :
                 \A e \in added(submit(fields)) : CostAcceptable(e)

\* C19: adding a maintenance record (MaintenanceForm.handleSubmit with no
\* record loaded: the form's checks, MaintenanceRecord.validate() and
\* DataManager.addMaintenanceRecord) fails when its cost is negative, when
\* it exceeds 1,000,000 and when it has more than 2 decimal places (10.005),
\* and succeeds for 999999.99; a record is accepted only if, counted in
\* thousandths, 0 <= cost <= 1,000,000 and cost is a whole number of
\* hundredths.  The same verdicts are given by MaintenanceRecord.validate().
C19_CostBounds ==
    /\ ~RecordWithCostValid(Num(-1, 0), now)
    /\ ~RecordWithCostValid(Num(1000000, 10), now)
    /\ ~RecordWithCostValid(Num(10, 5), now)
    /\ RecordWithCostValid(Num(999999, 990), now)
    /\ FormCostBounds

\* ------------------------------------------------------- search: inputs
\* vehicles handed to addVehicle before a search: two with every field and
\* one that has neither make, model nor mileage
SearchVehicleInputs ==
    {[id |-> "v1", make |-> "A", model |-> "B", year |-> 2020, mileage |-> 5],
     [id |-> "v2", make |-> "B", model |-> "A", year |-> 2021, mileage |-> 10],
     [id |-> "v3", year |-> 2020]}

\* maintenance records handed to addMaintenanceRecord before a search: two
\* with every field (dates are day numbers) and one without serviceType
\* and date
SearchRecordInputs ==
    {[id |-> "m1", vehicleId |-> "v1", serviceType |-> "oil", date |-> 1, cost |-> 10],
     [id |-> "m2", vehicleId |-> "v2", serviceType |-> "tyres", date |-> 2, cost |-> 20],
     [id |-> "m3", vehicleId |-> "v1", cost |-> 10]}

\* criteria objects: one criterion, several criteria and none
SearchVehicleCriteria ==
    {[make |-> "a"], [model |-> "a", year |-> 2021], [year |-> 2020],
     [minMileage |-> 5, maxMileage |-> 5], [make |-> "B", minMileage |-> 5],
     [minMileage |-> 10], <<>>}

SearchRecordCriteria ==
    {[serviceType |-> "OI"], [vehicleId |-> "v1"], [vehicleId |-> "v2", minCost |-> 20],
     [startDate |-> 1, endDate |-> 1], [minCost |-> 10, maxCost |-> 10],
     [startDate |-> 2], <<>>}

\* ---------------------------------------------------- search on its own
AddSearchVehicle ==
    \E data \in SearchVehicleInputs, order \in KeyOrders :
        Apply(addVehicle(World, data, now, Undefined, "ok", order).w)

AddSearchRecord ==
    \E data \in SearchRecordInputs, order \in KeyOrders :
        Apply(addMaintenanceRecord(World, data, now, Undefined, "ok", order).w)

SearchVehiclesBy ==
    \E criteria \in SearchVehicleCriteria \cup {NotAnObject} :
        Apply(searchVehicles(World, criteria, now).w)

SearchMaintenanceRecordsBy ==
    \E criteria \in SearchRecordCriteria \cup {NotAnObject} :
        Apply(searchMaintenanceRecords(World, criteria, now).w)

NextSearch ==
    \/ AddSearchVehicle
    \/ AddSearchRecord
    \/ SearchVehiclesBy
    \/ SearchMaintenanceRecordsBy

SpecSearch == Init /\ [][NextSearch]_vars

\* ------------------------------------------------------------- search
\* e[f] is a string that contains c[f], letter case ignored
ContainsText(e, c, f) ==
    /\ f \in DOMAIN e
    /\ IsString(e[f])
    /\ includes(toLowerCase(Chars[e[f]]), toLowerCase(Chars[c[f]]))
\* e[f] lies on the given side of the bound c[cf], the bound included
WithinBound(e, c, f, cf, lower) ==
    /\ f \in DOMAIN e
    /\ IF lower THEN e[f] >= c[cf] ELSE e[f] <= c[cf]
\* the vehicle satisfies every criterion present in c
SatisfiesVehicleCriteria(e, c) ==
    /\ "make" \in DOMAIN c => ContainsText(e, c, "make")
    /\ "model" \in DOMAIN c => ContainsText(e, c, "model")
    /\ "year" \in DOMAIN c => "year" \in DOMAIN e /\ e.year = c.year
    /\ "minMileage" \in DOMAIN c => WithinBound(e, c, "mileage", "minMileage", TRUE)
    /\ "maxMileage" \in DOMAIN c => WithinBound(e, c, "mileage", "maxMileage", FALSE)
\* the maintenance record satisfies every criterion present in c
SatisfiesRecordCriteria(e, c) ==
    /\ "vehicleId" \in DOMAIN c => "vehicleId" \in DOMAIN e /\ e.vehicleId = c.vehicleId
    /\ "serviceType" \in DOMAIN c => ContainsText(e, c, "serviceType")
    /\ "startDate" \in DOMAIN c => WithinBound(e, c, "date", "startDate", TRUE)
    /\ "endDate" \in DOMAIN c => WithinBound(e, c, "date", "endDate", FALSE)
    /\ "minCost" \in DOMAIN c => WithinBound(e, c, "cost", "minCost", TRUE)
    /\ "maxCost" \in DOMAIN c => WithinBound(e, c, "cost", "maxCost", FALSE)

\* C21: searchVehicles(criteria) and searchMaintenanceRecords(criteria) with
\* an object criteria return, in collection order, exactly the records of
\* the current collection that satisfy every criterion present
\* (case-insensitive substring for make, model and serviceType, equality for
\* year and vehicleId, inclusive bounds for mileage, cost and date), for
\* every collection the DataManager can have persisted; with criteria that
\* are no object they return the full collection.
C21_SearchReturnsMatches ==
    /\ \A c \in SearchVehicleCriteria :
          searchVehicles(World, c, now).r
              = SelectSeq(StoredSeq(ls, STORAGE_KEYS.VEHICLES),
                          LAMBDA e : SatisfiesVehicleCriteria(e, c))
    /\ \A c \in SearchRecordCriteria :
          searchMaintenanceRecords(World, c, now).r
              = SelectSeq(StoredSeq(ls, STORAGE_KEYS.MAINTENANCE_RECORDS),
                          LAMBDA e : SatisfiesRecordCriteria(e, c))
    /\ searchVehicles(World, NotAnObject, now).r = StoredSeq(ls, STORAGE_KEYS.VEHICLES)
    /\ searchMaintenanceRecords(World, NotAnObject, now).r
           = StoredSeq(ls, STORAGE_KEYS.MAINTENANCE_RECORDS)

\* ------------------------------------------- calls whose writes succeed
AddVehicleStored ==
    \E data \in VehicleInputs, order \in KeyOrders :
      \E genId \in GeneratedIds(data, GeneratedVehicleIds, StoredVehicles) :
        Apply(addVehicle(World, data, now, genId, "ok", order).w)

UpdateVehicleStored ==
    \E id \in VehicleIds, updates \in VehicleUpdates, order \in KeyOrders :
        Apply(updateVehicle(World, id, updates, now, "ok", order).w)

DeleteVehicleStored ==
    \E id \in VehicleIds, order \in KeyOrders :
        Apply(deleteVehicle(World, id, now, "ok", "ok", order).w)

AddMaintenanceRecordStored ==
    \E data \in RecordInputs, order \in KeyOrders :
      \E genId \in GeneratedIds(data, GeneratedRecordIds, StoredRecords) :
        Apply(addMaintenanceRecord(World, data, now, genId, "ok", order).w)

UpdateMaintenanceRecordStored ==
    \E id \in RecordIds, updates \in RecordUpdates, order \in KeyOrders :
        Apply(updateMaintenanceRecord(World, id, updates, now, "ok", order).w)

DeleteMaintenanceRecordStored ==
    \E id \in RecordIds, order \in KeyOrders :
        Apply(deleteMaintenanceRecord(World, id, now, "ok", order).w)

\* ------------------------------------------------- export, then import
\* the state after a call that left the world w and whose return value the
\* page keeps
ApplyAndHold(w, value) ==
    /\ ls' = w.ls
    /\ vehiclesCache' = w.vehiclesCache
    /\ maintenanceRecordsCache' = w.maintenanceRecordsCache
    /\ lastVehiclesCacheTime' = w.lastVehiclesCacheTime
    /\ lastMaintenanceCacheTime' = w.lastMaintenanceCacheTime
    /\ held' = value
    /\ UNCHANGED <<storageAvailable, now, vehicleInstance, recordInstance, vehicleForm, maintenanceForm, editing, app>>

\* the four writes of an importAllData call all succeed
AllWritesOk == [i \in 1..4 |-> "ok"]

\* snap = exportAllData()
ExportSnapshot ==
    LET o == exportAllData(World, now)
    IN ApplyAndHold(o.w, o.r)

\* importAllData(snap, clearFirst)
ImportSnapshot ==
    /\ held # NothingHeld
    /\ \E clearFirst \in BOOLEAN, order \in KeyOrders :
          Apply(importAllData(World, held, clearFirst, AllWritesOk, order).w)

NextSnapshot ==
    \/ AddVehicleStored
    \/ UpdateVehicleStored
    \/ DeleteVehicleStored
    \/ AddMaintenanceRecordStored
    \/ DeleteMaintenanceRecordStored
    \/ ExportSnapshot
    \/ ImportSnapshot

SpecSnapshot == Init /\ [][NextSnapshot]_vars

\* importAllData(snapshot, clearFirst) leaves both collections equal to the
\* ones in the snapshot and reports their sizes
ImportRestores(snapshot, clearFirst) ==
    \A order \in KeyOrders :
        LET o == importAllData(World, snapshot, clearFirst, AllWritesOk, order)
        IN ~o.wf =>
             /\ Stored(o.w.ls, STORAGE_KEYS.VEHICLES) = snapshot.vehicles
             /\ Stored(o.w.ls, STORAGE_KEYS.MAINTENANCE_RECORDS) = snapshot.maintenanceRecords
             /\ o.r.success
             /\ o.r.data.vehiclesImported = Len(snapshot.vehicles.a)
             /\ o.r.data.maintenanceRecordsImported = Len(snapshot.maintenanceRecords.a)

\* C22: with snap = exportAllData() taken in a state S, after any sequence
\* of mutations importAllData(snap, clearFirst) with all writes succeeding
\* leaves both persisted collections equal to those of S, for clearFirst
\* true and false, and reports as vehiclesImported and
\* maintenanceRecordsImported the sizes of the collections in S.  Stated as:
\* in every state the export holds exactly the two persisted collections,
\* and in every later state importing a snapshot held from an earlier
\* export restores the collections it holds.
C22_ImportRestoresSnapshot ==
    /\ LET snap == exportAllData(World, now).r
       IN /\ snap.vehicles = JsArray(StoredSeq(ls, STORAGE_KEYS.VEHICLES))
          /\ snap.maintenanceRecords = JsArray(StoredSeq(ls, STORAGE_KEYS.MAINTENANCE_RECORDS))
    /\ held # NothingHeld => \A clearFirst \in BOOLEAN : ImportRestores(held, clearFirst)

\* a snapshot with a vehicle and a record is held while the collections
\* have changed since, and storage takes the writes of an import
C22_Witness ==
    /\ held # NothingHeld
    /\ storageAvailable
    /\ Len(held.vehicles.a) > 0
    /\ Len(held.maintenanceRecords.a) > 0
    /\ StoredVehicles # held.vehicles
    /\ StoredRecords # held.maintenanceRecords
    /\ Len(StoredSeq(ls, STORAGE_KEYS.VEHICLES)) > 0

\* -------------------------------------- adds and updates as time passes
NextStamps ==
    \/ Tick
    \/ AddVehicleStored
    \/ UpdateVehicleStored
    \/ AddMaintenanceRecordStored
    \/ UpdateMaintenanceRecordStored

SpecStamps == Init /\ [][NextStamps]_vars

\* every record of the collection under key that is still there after the
\* step has an updatedAt that is not earlier than before
StampsKept(key) ==
    LET before == StoredSeq(ls, key)
        after == StoredSeq(ls', key)
    IN \A i \in DOMAIN before :
          LET j == FirstIndex(after, "id", before[i].id)
          IN j # 0 => after[j].updatedAt.iso >= before[i].updatedAt.iso

\* C23: for a record that stays in a persisted collection, across any
\* sequence of addVehicle/updateVehicle (addMaintenanceRecord /
\* updateMaintenanceRecord) calls and with a non-decreasing clock, updatedAt
\* never decreases from one persisted state to the next, whatever the
\* partial fields of an update supply for updatedAt.
C23_UpdatedAtNeverDecreases ==
    [][StampsKept(STORAGE_KEYS.VEHICLES) /\ StampsKept(STORAGE_KEYS.MAINTENANCE_RECORDS)]_vars

\* a vehicle and a record were updated, after time had passed, with partial
\* fields that carry an earlier updatedAt
C23_Witness ==
    /\ \E i \in DOMAIN StoredSeq(ls, STORAGE_KEYS.VEHICLES) :
          LET e == StoredSeq(ls, STORAGE_KEYS.VEHICLES)[i]
          IN e.make = "B" /\ e.updatedAt.iso > StartTime
    /\ \E i \in DOMAIN StoredSeq(ls, STORAGE_KEYS.MAINTENANCE_RECORDS) :
          LET e == StoredSeq(ls, STORAGE_KEYS.MAINTENANCE_RECORDS)[i]
          IN e.serviceType = "tyres" /\ e.updatedAt.iso > StartTime

\* ------------------------------------ the caller changes what getAll gave
\* what a caller does with the array a getAll returned: append an element,
\* remove the last one, or assign a field of the first record
CallerChanges ==
    {[op |-> "push"], [op |-> "pop"],
     [op |-> "assign", index |-> 1, field |-> "make", value |-> "B"],
     [op |-> "assign", index |-> 1, field |-> "serviceType", value |-> "tyres"]}

\* the manager's cache after the caller's change.  The array returned is a
\* new array, [...cache], whose elements are the very objects of the cache:
\* push and pop act on the new array, an assignment acts on the shared object
CacheAfterChange(cache, change) ==
    IF change.op = "assign" /\ IsArray(cache) /\ change.index <= Len(cache.a)
    THEN JsArray(Replace(cache.a, change.index,
                         Put(cache.a[change.index], change.field, change.value)))
    ELSE cache

\* getAllVehicles() followed by the caller's change of the array returned
ChangeReturnedVehicles(w, change, t) ==
    LET g == getAllVehicles(w, TRUE, t)
    IN [g.w EXCEPT !.vehiclesCache = CacheAfterChange(g.w.vehiclesCache, change)]

\* getAllMaintenanceRecords() followed by the caller's change
ChangeReturnedRecords(w, change, t) ==
    LET g == getAllMaintenanceRecords(w, TRUE, t)
    IN [g.w EXCEPT !.maintenanceRecordsCache =
                       CacheAfterChange(g.w.maintenanceRecordsCache, change)]

GetAllVehiclesAndChange ==
    \E change \in CallerChanges : Apply(ChangeReturnedVehicles(World, change, now))

GetAllMaintenanceRecordsAndChange ==
    \E change \in CallerChanges : Apply(ChangeReturnedRecords(World, change, now))

NextCopy ==
    \/ Tick
    \/ AddVehicleStored
    \/ AddMaintenanceRecordStored
    \/ DeleteVehicleStored
    \/ GetAllVehiclesAndChange
    \/ GetAllMaintenanceRecordsAndChange

SpecCopy == Init /\ [][NextCopy]_vars

\* the reads of the vehicles give the same in the worlds a and b
SameVehicleReads(a, b, t) ==
    /\ getAllVehicles(a, TRUE, t).r = getAllVehicles(b, TRUE, t).r
    /\ \A id \in VehicleIds : getVehicleById(a, id, t).r = getVehicleById(b, id, t).r
    /\ \A c \in SearchVehicleCriteria : searchVehicles(a, c, t).r = searchVehicles(b, c, t).r
\* the reads of the maintenance records give the same in the worlds a and b
SameRecordReads(a, b, t) ==
    /\ getAllMaintenanceRecords(a, TRUE, t).r = getAllMaintenanceRecords(b, TRUE, t).r
    /\ \A id \in RecordIds :
          getMaintenanceRecordById(a, id, t).r = getMaintenanceRecordById(b, id, t).r
    /\ \A c \in SearchRecordCriteria :
          searchMaintenanceRecords(a, c, t).r = searchMaintenanceRecords(b, c, t).r

\* what C24 asks of the caller's change
CopyIsDefensive(change) ==
    /\ LET before == getAllVehicles(World, TRUE, now).w
           after == ChangeReturnedVehicles(World, change, now)
       IN /\ after.vehiclesCache = before.vehiclesCache
          /\ SameVehicleReads(before, after, now)
    /\ LET before == getAllMaintenanceRecords(World, TRUE, now).w
           after == ChangeReturnedRecords(World, change, now)
       IN /\ after.maintenanceRecordsCache = before.maintenanceRecordsCache
          /\ SameRecordReads(before, after, now)

\* C24: getAllVehicles / getAllMaintenanceRecords return a defensive copy:
\* no modification a caller makes to the returned value (adding or removing
\* elements of the returned sequence, or changing a field of a returned
\* record) changes the manager's cache or what a later getAll, getById or
\* search returns before the next mutating operation.
C24_ReturnedCopyIsDefensive == \A change \in CallerChanges : CopyIsDefensive(change)

\* ------------------------------------ vehicles and the records of vehicles
\* maintenance records handed to addMaintenanceRecord: for either vehicle
\* and for none
LinkedRecordInputs ==
    {[id |-> "m1", vehicleId |-> "v1", serviceType |-> "oil", cost |-> 10],
     [id |-> "m2", vehicleId |-> "v2", serviceType |-> "oil", cost |-> 10],
     [serviceType |-> "oil", cost |-> 10]}

AddLinkedRecord ==
    \E data \in LinkedRecordInputs, order \in KeyOrders :
      \E genId \in GeneratedIds(data, {"m3"}, StoredRecords) :
        Apply(addMaintenanceRecord(World, data, now, genId, "ok", order).w)

DeleteAnyRecord ==
    \E id \in RecordIds \cup {"m3"}, order \in KeyOrders :
        Apply(deleteMaintenanceRecord(World, id, now, "ok", order).w)

NextLinked ==
    \/ Tick
    \/ AddVehicleStored
    \/ DeleteVehicleStored
    \/ AddLinkedRecord
    \/ DeleteAnyRecord

SpecLinked == Init /\ [][NextLinked]_vars

\* C25: starting from empty collections, after any sequence of addVehicle,
\* deleteVehicle, addMaintenanceRecord and deleteMaintenanceRecord calls in
\* which every store write succeeds, every persisted maintenance record with
\* a non-empty vehicleId references a vehicle that is present in the
\* persisted vehicles collection.
C25_RecordsReferenceVehicles ==
    \A i \in DOMAIN StoredSeq(ls, STORAGE_KEYS.MAINTENANCE_RECORDS) :
        LET e == StoredSeq(ls, STORAGE_KEYS.MAINTENANCE_RECORDS)[i]
        IN FieldTruthy(e, "vehicleId")
             => FirstIndex(StoredSeq(ls, STORAGE_KEYS.VEHICLES), "id", e.vehicleId) # 0

\* after a later call (the clock has advanced since the first vehicle was
\* stored) one vehicle is gone with its records, the other one still has
\* its record, and a record without vehicle is stored
C25_Witness ==
    /\ IdsOf(StoredSeq(ls, STORAGE_KEYS.VEHICLES)) = {"v2"}
    /\ IdsOf(StoredSeq(ls, STORAGE_KEYS.MAINTENANCE_RECORDS)) = {"m2", "m3"}
    /\ now > StartTime

\* ------------------------------------------------------------------ C26
\* seq and other differ at most in the element at index
SameBut(seq, other, index) ==
    /\ Len(other) = Len(seq)
    /\ \A i \in DOMAIN seq : i # index => other[i] = seq[i]

\* what C26 asks of the outcome o of a vehicle operation on the vehicle id:
\* kind says whether it appends, replaces or removes
VehicleFrame(o, kind, id) ==
    LET before == StoredSeq(ls, STORAGE_KEYS.VEHICLES)
        after == StoredSeq(o.w.ls, STORAGE_KEYS.VEHICLES)
        index == FirstIndex(before, "id", id)
    IN o.r.success =>
         /\ CASE kind = "add" -> /\ Len(after) = Len(before) + 1
                                 /\ SubSeq(after, 1, Len(before)) = before
                                 /\ after[Len(after)] = o.r.data
              [] kind = "update" -> /\ index # 0
                                    /\ SameBut(before, after, index)
                                    /\ after[index] = o.r.data
              [] OTHER -> /\ index # 0
                          /\ after = Splice(before, index)
         /\ kind # "delete"
              => Stored(o.w.ls, STORAGE_KEYS.MAINTENANCE_RECORDS) = StoredRecords

\* a maintenance record operation leaves the persisted vehicles unchanged
RecordFrame(o) ==
    o.r.success => Stored(o.w.ls, STORAGE_KEYS.VEHICLES) = StoredVehicles

\* C26: a successful single-record operation changes only its target:
\* addVehicle appends one record at the end, updateVehicle replaces one
\* record in place and deleteVehicle removes one record, each leaving all
\* other vehicles and their relative order unchanged; addVehicle and
\* updateVehicle leave the persisted maintenance collection unchanged, and
\* add/update/delete of a maintenance record leave the persisted vehicles
\* collection unchanged.
C26_OnlyTheTargetChanges ==
    \A env \in WriteEnvs, order \in KeyOrders :
       /\ \A data \in VehicleInputs :
            \A genId \in GeneratedIds(data, GeneratedVehicleIds, StoredVehicles) :
               VehicleFrame(addVehicle(World, data, now, genId, env, order), "add", Undefined)
       /\ \A id \in VehicleIds, updates \in VehicleUpdates :
            VehicleFrame(updateVehicle(World, id, updates, now, env, order), "update", id)
       /\ \A id \in VehicleIds, env2 \in WriteEnvs :
            VehicleFrame(deleteVehicle(World, id, now, env, env2, order), "delete", id)
       /\ \A data \in RecordInputs :
            \A genId \in GeneratedIds(data, GeneratedRecordIds, StoredRecords) :
               RecordFrame(addMaintenanceRecord(World, data, now, genId, env, order))
       /\ \A id \in RecordIds, updates \in RecordUpdates :
            RecordFrame(updateMaintenanceRecord(World, id, updates, now, env, order))
       /\ \A id \in RecordIds :
            RecordFrame(deleteMaintenanceRecord(World, id, now, env, order))

\* ------------------------------------------- VehicleForm: its life cycle
\* the delay of the debounced validation on input, in milliseconds
DebounceDelay == 300
UpdatedText == "Vehicle updated successfully!"
AddedText == "Vehicle added successfully!"

\* setupRealTimeValidation(input, validator): a blur listener, an input
\* listener with its own timer, and the cleanup function stored on the input
setupRealTimeValidation(f) ==
    [f EXCEPT !.blurListener = TRUE, !.inputListener = TRUE, !.cleanup = TRUE,
              !.inputTimeout = NoTimeout]

\* clearValidation(input): removes the message and the classes and, if the
\* input still has its cleanup function, calls and deletes it; the cleanup
\* removes the blur listener and clears the pending timer
clearValidation(f) ==
    IF f.cleanup
    THEN [f EXCEPT !.validated = "never", !.blurListener = FALSE,
                   !.inputTimeout = NoTimeout, !.cleanup = FALSE]
    ELSE [f EXCEPT !.validated = "never"]

\* a variant of VehicleForm_resetForm that keeps currentVehicleId
VehicleForm_resetForm_KeepsId(f) == IF ~f.form THEN f ELSE clearValidation(f)

\* VehicleForm.resetForm()
VehicleForm_resetForm(f) ==
    IF ~f.form THEN f
    ELSE [clearValidation(f) EXCEPT !.currentVehicleId = NoCurrentId]

\* VehicleForm.initialize(): containerFound tells whether the container
\* element is in the document
VehicleForm_initialize(f, containerFound) ==
    IF ~containerFound THEN f
    ELSE [setupRealTimeValidation(f) EXCEPT !.form = TRUE, !.isInitialized = TRUE]

\* createVehicleForm(containerId)
createVehicleForm(containerFound) ==
    VehicleForm_initialize(VehicleForm_constructor, containerFound)

\* VehicleForm.handleReset()
VehicleForm_handleReset(f) == VehicleForm_resetForm(f)

\* VehicleForm.handleCancel()
VehicleForm_handleCancel(f) ==
    [VehicleForm_resetForm(f) EXCEPT !.currentVehicleId = NoCurrentId]

\* VehicleForm.destroy()
VehicleForm_destroy(f) ==
    [(IF f.form THEN clearValidation(f) ELSE f)
        EXCEPT !.form = FALSE, !.isInitialized = FALSE, !.currentVehicleId = NoCurrentId]

\* VehicleForm.loadVehicle(vehicleId) at time t: the form, the DataManager
\* state and the boolean returned
VehicleForm_loadVehicle(f, w, vehicleId, t) ==
    IF vehicleId = NoCurrentId THEN [f |-> f, w |-> w, r |-> FALSE]
    ELSE LET g == getVehicleById(w, vehicleId, t)
         IN IF g.r = NullElem THEN [f |-> f, w |-> g.w, r |-> FALSE]
            ELSE [f |-> [f EXCEPT !.currentVehicleId = vehicleId], w |-> g.w, r |-> TRUE]

\* the DataManager call a submit that got past validation makes
SubmitCall(kind, currentId, update, add) ==
    IF kind # "sent" THEN NoCall
    ELSE IF currentId # NoCurrentId THEN [op |-> update, id |-> currentId]
    ELSE [op |-> add, id |-> NoCurrentId]

\* what handleSubmit does with the outcome o of its validation and of its
\* DataManager call: the reset, the success message and the clearing of
\* currentVehicleId after a successful save
VehicleForm_afterSubmit(f, o) ==
    LET called == [f EXCEPT !.lastCall = SubmitCall(o.kind, f.currentVehicleId,
                                                    "updateVehicle", "addVehicle"),
                            !.successMessage = NoMessage]
    IN IF o.kind = "sent" /\ o.r.success
       THEN LET reset == VehicleForm_resetForm(called)
                shown == [reset EXCEPT !.successMessage =
                             IF reset.currentVehicleId # NoCurrentId THEN UpdatedText
                             ELSE AddedText]
            IN [f |-> [shown EXCEPT !.currentVehicleId = NoCurrentId], w |-> o.w,
                saved |-> TRUE, kind |-> o.kind]
       ELSE [f |-> called, w |-> o.w, saved |-> FALSE, kind |-> o.kind]

\* the submit event of the vehicle form: handleSubmit as a whole.  saved
\* tells whether result.success was true
VehicleForm_onSubmit(f, w, fields, t, genId, env, order) ==
    IF ~f.form THEN [f |-> f, w |-> w, saved |-> FALSE, kind |-> "noform"]
    ELSE VehicleForm_afterSubmit(f,
             VehicleForm_handleSubmit(w, fields, f.currentVehicleId, t, genId, env, order))

\* ------------------------------------------------- editing with the form
EditVehicleIds == {"v1", "v2"}
\* what the user entered: fields that pass validation and fields without year
EditFields ==
    {[make |-> Str(Ford), model |-> Str(Ka), year |-> Str(y), mileage |-> Str(Numeral(1000))] :
        y \in {Numeral(minYear), <<>>}}

\* the state after an event that left the DataManager state w, the vehicle
\* form f and the user editing the vehicle e
ApplyEdit(w, f, e) ==
    /\ ls' = w.ls
    /\ vehiclesCache' = w.vehiclesCache
    /\ maintenanceRecordsCache' = w.maintenanceRecordsCache
    /\ lastVehiclesCacheTime' = w.lastVehiclesCacheTime
    /\ lastMaintenanceCacheTime' = w.lastMaintenanceCacheTime
    /\ vehicleForm' = f
    /\ editing' = e
    /\ UNCHANGED <<storageAvailable, now, vehicleInstance, recordInstance, held,
                   maintenanceForm, app>>

\* the page creates the vehicle form (no timer of an earlier form is pending)
CreateVehicleForm ==
    /\ ~vehicleForm.form
    /\ vehicleForm.inputTimeout = NoTimeout
    /\ \E containerFound \in BOOLEAN :
          ApplyEdit(World, createVehicleForm(containerFound), NoCurrentId)

\* the page loads a vehicle into the form for editing
LoadVehicle ==
    \E id \in EditVehicleIds \cup {NoCurrentId} :
        LET o == VehicleForm_loadVehicle(vehicleForm, World, id, now)
        IN ApplyEdit(o.w, o.f, IF o.r THEN id ELSE editing)

\* the user clicks Reset; the button exists while the form is rendered
ResetVehicleForm ==
    /\ vehicleForm.form
    /\ ApplyEdit(World, VehicleForm_handleReset(vehicleForm), NoCurrentId)

\* the user clicks Cancel
CancelVehicleForm ==
    /\ vehicleForm.form
    /\ ApplyEdit(World, VehicleForm_handleCancel(vehicleForm), NoCurrentId)

\* the page destroys the form
DestroyVehicleForm ==
    ApplyEdit(World, VehicleForm_destroy(vehicleForm), NoCurrentId)

\* the user submits the form
SubmitEdit ==
    /\ vehicleForm.form
    /\ \E fields \in EditFields, env \in FormWriteEnvs, order \in KeyOrders :
        \E genId \in FormGeneratedIds(vehicleForm.currentVehicleId, EditVehicleIds,
                                      StoredVehicles) :
          \E o \in {VehicleForm_onSubmit(vehicleForm, World, fields, now, genId, env, order)} :
            ApplyEdit(o.w, o.f, IF o.saved THEN NoCurrentId ELSE editing)

\* a vehicle is deleted from the list while the form is open
DeleteListedVehicle ==
    \E id \in EditVehicleIds, order \in KeyOrders :
        Apply(deleteVehicle(World, id, now, "ok", "ok", order).w)

NextEdit ==
    \/ CreateVehicleForm
    \/ LoadVehicle
    \/ ResetVehicleForm
    \/ CancelVehicleForm
    \/ DestroyVehicleForm
    \/ SubmitEdit
    \/ DeleteListedVehicle

SpecEdit == Init /\ [][NextEdit]_vars

\* ------------------------------------------------------------------ C27
\* the form is rendered and the fields entered pass its validation
ValidSubmit(fields) ==
    vehicleForm.form /\ validateAllFields(VehicleFormData(fields), now).valid

\* what C27 asks of a submit of the form in the current state
SubmitFollowsEditing(fields, env, order, genId) ==
    LET o == VehicleForm_onSubmit(vehicleForm, World, fields, now, genId, env, order)
    IN /\ ValidSubmit(fields)
            => o.f.lastCall = IF editing # NoCurrentId
                              THEN [op |-> "updateVehicle", id |-> editing]
                              ELSE [op |-> "addVehicle", id |-> NoCurrentId]
       /\ o.saved => o.f.currentVehicleId = NoCurrentId
       /\ ~o.saved => o.f.currentVehicleId = vehicleForm.currentVehicleId

\* C27: a valid submit of the vehicle form calls updateVehicle(id) exactly
\* when loadVehicle(id) succeeded more recently than any Reset, Cancel,
\* successful submit or destroy, and addVehicle otherwise; currentVehicleId
\* is null after a reset, a cancel, a successful submit and a destroy until
\* the next successful loadVehicle; a failed submit leaves currentVehicleId
\* unchanged.
C27_SubmitFollowsEditMode ==
    /\ vehicleForm.currentVehicleId = editing
    /\ \A fields \in EditFields, env \in FormWriteEnvs, order \in KeyOrders :
         \A genId \in FormGeneratedIds(vehicleForm.currentVehicleId, EditVehicleIds,
                                       StoredVehicles) :
            SubmitFollowsEditing(fields, env, order, genId)

\* the form is rendered with a vehicle loaded for editing, its last submit
\* called updateVehicle, and two vehicles are stored
C27_Witness ==
    /\ vehicleForm.form
    /\ vehicleForm.currentVehicleId \in EditVehicleIds
    /\ vehicleForm.lastCall.op = "updateVehicle"
    /\ Len(StoredSeq(ls, STORAGE_KEYS.VEHICLES)) = 2

\* --------------------------------------- MaintenanceForm: its life cycle
RecordUpdatedText == "Maintenance record updated successfully!"
RecordAddedText == "Maintenance record added successfully!"

\* MaintenanceForm.initialize()
MaintenanceForm_initialize(f, containerFound) ==
    IF ~containerFound THEN f ELSE [f EXCEPT !.form = TRUE, !.isInitialized = TRUE]

\* MaintenanceForm.setVehicleId(vehicleId)
MaintenanceForm_setVehicleId(f, vehicleId) == [f EXCEPT !.currentVehicleId = vehicleId]

\* MaintenanceForm.resetForm()
MaintenanceForm_resetForm(f) ==
    IF ~f.form THEN f ELSE [f EXCEPT !.currentRecordId = NoCurrentId]

\* MaintenanceForm.loadMaintenanceRecord(recordId) at time t
MaintenanceForm_loadMaintenanceRecord(f, w, recordId, t) ==
    IF recordId = NoCurrentId THEN [f |-> f, w |-> w, r |-> FALSE]
    ELSE LET g == getMaintenanceRecordById(w, recordId, t)
         IN IF g.r = NullElem THEN [f |-> f, w |-> g.w, r |-> FALSE]
            ELSE [f |-> [f EXCEPT !.currentRecordId = recordId,
                                  !.currentVehicleId = g.r.vehicleId],
                  w |-> g.w, r |-> TRUE]

\* what handleSubmit does with the outcome o of its validation and of its
\* DataManager call: the reset, the success message and the clearing of
\* currentRecordId after a successful save
MaintenanceForm_afterSubmit(f, o) ==
    LET called == [f EXCEPT !.lastCall = SubmitCall(o.kind, f.currentRecordId,
                                                    "updateMaintenanceRecord",
                                                    "addMaintenanceRecord"),
                            !.successMessage = NoMessage]
    IN IF o.kind = "sent" /\ o.r.success
       THEN LET reset == MaintenanceForm_resetForm(called)
                shown == [reset EXCEPT !.successMessage =
                             IF reset.currentRecordId # NoCurrentId THEN RecordUpdatedText
                             ELSE RecordAddedText]
            IN [f |-> [shown EXCEPT !.currentRecordId = NoCurrentId], w |-> o.w,
                saved |-> TRUE, kind |-> o.kind]
       ELSE [f |-> called, w |-> o.w, saved |-> FALSE, kind |-> o.kind]

\* the submit event of the maintenance form: handleSubmit as a whole
MaintenanceForm_onSubmit(f, w, fields, t, genId, env, order) ==
    IF ~f.form THEN [f |-> f, w |-> w, saved |-> FALSE, kind |-> "noform"]
    ELSE MaintenanceForm_afterSubmit(f,
             MaintenanceForm_handleSubmit(w, fields, f.currentVehicleId, f.currentRecordId,
                                          t, genId, env, order))

EditRecordIds == {"m1", "m2"}
\* what the user entered into the maintenance form: today's date with a cost
\* of 10, and with a negative cost
EditRecordFields ==
    {[date |-> DateStr(Instant(0, 0)), serviceType |-> Str(Oil), description |-> EmptyStr,
      cost |-> Str(c)] : c \in {<<"1", "0">>, <<"-", "1">>}}

\* the state after an event that left the DataManager state w and the
\* maintenance form f
ApplyRecordEdit(w, f) ==
    /\ ls' = w.ls
    /\ vehiclesCache' = w.vehiclesCache
    /\ maintenanceRecordsCache' = w.maintenanceRecordsCache
    /\ lastVehiclesCacheTime' = w.lastVehiclesCacheTime
    /\ lastMaintenanceCacheTime' = w.lastMaintenanceCacheTime
    /\ maintenanceForm' = f
    /\ UNCHANGED <<storageAvailable, now, vehicleInstance, recordInstance, held,
                   vehicleForm, editing, app>>

CreateMaintenanceForm ==
    /\ ~maintenanceForm.form
    /\ \E containerFound \in BOOLEAN :
          ApplyRecordEdit(World, MaintenanceForm_initialize(MaintenanceForm_constructor,
                                                            containerFound))

\* the user selects the vehicle whose maintenance is recorded
SetVehicleId ==
    \E id \in EditVehicleIds :
        ApplyRecordEdit(World, MaintenanceForm_setVehicleId(maintenanceForm, id))

LoadMaintenanceRecord ==
    \E id \in EditRecordIds :
        LET o == MaintenanceForm_loadMaintenanceRecord(maintenanceForm, World, id, now)
        IN ApplyRecordEdit(o.w, o.f)

SubmitRecordEdit ==
    /\ maintenanceForm.form
    /\ \E fields \in EditRecordFields, env \in FormWriteEnvs, order \in KeyOrders :
        \E genId \in FormGeneratedIds(maintenanceForm.currentRecordId, EditRecordIds,
                                      StoredRecords) :
          \E o \in {MaintenanceForm_onSubmit(maintenanceForm, World, fields, now, genId,
                                               env, order)} :
            ApplyRecordEdit(o.w, o.f)

\* both forms in use: vehicles and records are loaded and saved
NextSaved ==
    \/ CreateVehicleForm
    \/ LoadVehicle
    \/ SubmitEdit
    \/ CreateMaintenanceForm
    \/ SetVehicleId
    \/ LoadMaintenanceRecord
    \/ SubmitRecordEdit

SpecSaved == Init /\ [][NextSaved]_vars

\* ------------------------------------------------------------------ C28
\* the message a form shows after a successful submit names what the
\* submit did
MessageMatches(o, update, updatedText, addedText) ==
    o.saved => o.f.successMessage = IF o.f.lastCall.op = update THEN updatedText
                                    ELSE addedText

\* C28: after a successful submit both forms show the matching success
\* message: 'Vehicle updated successfully!' / 'Maintenance record updated
\* successfully!' when the submit updated, and the 'added successfully'
\* message when it added.
C28_SuccessMessageMatches ==
    \A env \in FormWriteEnvs, order \in KeyOrders :
       /\ \A fields \in EditFields :
            \A genId \in FormGeneratedIds(vehicleForm.currentVehicleId, EditVehicleIds,
                                          StoredVehicles) :
               MessageMatches(VehicleForm_onSubmit(vehicleForm, World, fields, now, genId,
                                                   env, order),
                              "updateVehicle", UpdatedText, AddedText)
       /\ \A fields \in EditRecordFields :
            \A genId \in FormGeneratedIds(maintenanceForm.currentRecordId, EditRecordIds,
                                          StoredRecords) :
               MessageMatches(MaintenanceForm_onSubmit(maintenanceForm, World, fields, now,
                                                       genId, env, order),
                              "updateMaintenanceRecord", RecordUpdatedText, RecordAddedText)

\* ------------------------------------------- validation while typing
\* a blur event on an input of the form: the listeners still attached run
VehicleForm_onBlur(f) ==
    IF f.blurListener THEN [f EXCEPT !.validated = "blur"] ELSE f

\* an input event at time t: the listener clears the pending timer and sets
\* a new one
VehicleForm_onInput(f, t) ==
    IF f.inputListener THEN [f EXCEPT !.inputTimeout = t + DebounceDelay] ELSE f

\* the pending timer fires: handleValidation runs
VehicleForm_onTimeout(f) ==
    [f EXCEPT !.validated = "debounced", !.inputTimeout = NoTimeout]

\* the moments at which the user acts and timers fire
TypingTimes ==
    {StartTime, StartTime + 100, StartTime + DebounceDelay, StartTime + DebounceDelay + 100,
     StartTime + 2 * DebounceDelay + 100}

TickTyping ==
    /\ \E t \in TypingTimes : t > now /\ now' = t
    /\ UNCHANGED <<storageAvailable, ls, vehiclesCache, maintenanceRecordsCache,
                   lastVehiclesCacheTime, lastMaintenanceCacheTime, vehicleInstance,
                   recordInstance, held, vehicleForm, maintenanceForm, editing, app>>

\* the user leaves an input of the rendered form
Blur ==
    /\ vehicleForm.form
    /\ ApplyEdit(World, VehicleForm_onBlur(vehicleForm), editing)

\* the user types into an input of the rendered form
Input ==
    /\ vehicleForm.form
    /\ ApplyEdit(World, VehicleForm_onInput(vehicleForm, now), editing)

\* a timer set by the input listener is due
ValidationTimeout ==
    /\ vehicleForm.inputTimeout # NoTimeout
    /\ now >= vehicleForm.inputTimeout
    /\ ApplyEdit(World, VehicleForm_onTimeout(vehicleForm), editing)

NextTyping ==
    \/ TickTyping
    \/ CreateVehicleForm
    \/ Blur
    \/ Input
    \/ ValidationTimeout
    \/ ResetVehicleForm
    \/ CancelVehicleForm
    \/ SubmitEdit
    \/ DestroyVehicleForm

SpecTyping == Init /\ [][NextTyping]_vars

\* C29: real-time validation stays active for the life of the form: a blur
\* on an input runs its validator, an input event runs it once, 300 ms after
\* the last input of a burst (an earlier pending run is cancelled); after
\* destroy no validator run is triggered or left pending.
C29_RealTimeValidationStaysActive ==
    /\ vehicleForm.isInitialized
         => /\ VehicleForm_onBlur(vehicleForm).validated = "blur"
            /\ VehicleForm_onInput(vehicleForm, now).inputTimeout = now + DebounceDelay
    /\ vehicleForm.inputTimeout # NoTimeout => vehicleForm.inputTimeout <= now + DebounceDelay
    /\ ~vehicleForm.form => vehicleForm.inputTimeout = NoTimeout

\* ------------------------------------------------------ Application.init
\* init() called by caller c, up to its first await: the guard on
\* AppState.isInitialized, then waitForDOM(), whose promise is resolved at
\* once unless the document is still loading
Application_init(a, c) ==
    IF a.isInitialized THEN [a EXCEPT !.pc[c] = "returned"]
    ELSE [a EXCEPT !.pc[c] = IF a.loading THEN "waitForDOM" ELSE "domReady"]

\* DOMContentLoaded: the listeners added by waitForDOM resolve their promises
Application_onDOMContentLoaded(a) ==
    [a EXCEPT !.loading = FALSE,
              !.pc = [c \in InitCallers |-> IF a.pc[c] = "waitForDOM" THEN "domReady"
                                            ELSE a.pc[c]]]

\* init() of caller c resumed after `await this.waitForDOM()`, up to the
\* dynamic import in initializeVehicleForm: isDOMReady is set and
\* setupEventListeners() adds the global listeners
Application_afterDOM(a, c) ==
    [a EXCEPT !.isDOMReady = TRUE, !.listeners = a.listeners + 1, !.pc[c] = "import"]

\* initializeVehicleForm() of caller c resumed after the import: imported
\* tells whether the module loaded, created is the form createVehicleForm
\* returned.  A failed import is reported and initializeModules goes on
Application_afterImport(a, c, imported, created) ==
    [a EXCEPT !.forms = IF imported /\ created.isInitialized THEN a.forms + 1 ELSE a.forms,
              !.pc[c] = "modulesDone"]

\* init() of caller c resumed after `await this.initializeModules()`:
\* isInitialized is set and 'app:ready' is dispatched
Application_afterModules(a, c) ==
    [a EXCEPT !.isInitialized = TRUE, !.ready = a.ready + 1, !.pc[c] = "done"]

\* the state after a step that left the application a and the vehicle form f
ApplyApp(a, f) ==
    /\ app' = a
    /\ vehicleForm' = f
    /\ UNCHANGED <<storageAvailable, ls, vehiclesCache, maintenanceRecordsCache,
                   lastVehiclesCacheTime, lastMaintenanceCacheTime, now, vehicleInstance,
                   recordInstance, held, maintenanceForm, editing>>

\* app.init() is called: by the script when it loads, or by a module that
\* imported the exported app
CallInit ==
    \E c \in InitCallers :
        /\ app.pc[c] = "idle"
        /\ ApplyApp(Application_init(app, c), vehicleForm)

DOMContentLoaded ==
    /\ app.loading
    /\ ApplyApp(Application_onDOMContentLoaded(app), vehicleForm)

ResumeAfterDOM ==
    \E c \in InitCallers :
        /\ app.pc[c] = "domReady"
        /\ ApplyApp(Application_afterDOM(app, c), vehicleForm)

ResumeAfterImport ==
    \E c \in InitCallers, imported \in BOOLEAN, containerFound \in BOOLEAN :
        /\ app.pc[c] = "import"
        /\ LET created == createVehicleForm(containerFound)
           IN ApplyApp(Application_afterImport(app, c, imported, created),
                       IF imported THEN created ELSE vehicleForm)

ResumeAfterModules ==
    \E c \in InitCallers :
        /\ app.pc[c] = "modulesDone"
        /\ ApplyApp(Application_afterModules(app, c), vehicleForm)

NextApp ==
    \/ CallInit
    \/ DOMContentLoaded
    \/ ResumeAfterDOM
    \/ ResumeAfterImport
    \/ ResumeAfterModules

SpecApp == Init /\ [][NextApp]_vars

\* C30: Application.init() is idempotent under any interleaving, a second
\* call made while the first awaits DOM readiness or the dynamic import of
\* the form included: the global listeners are installed once, the vehicle
\* form is created once and 'app:ready' is dispatched at most once; and
\* AppState.isInitialized is true only where isDOMReady is true.
C30_InitIsIdempotent ==
    /\ app.listeners <= 1
    /\ app.forms <= 1
    /\ app.ready <= 1
    /\ app.isInitialized => app.isDOMReady
====
